---- MODULE Spec2Model ----
(***************************************************************************)
(* Model of the pixels-server image gateway: parameter validation, the     *)
(* deterministic name deriver, the S3 storage key resolution, the          *)
(* transform pipeline and the read-through getImage state machine.         *)
(*                                                                         *)
(* JavaScript strings are sequences of one-character strings, so that      *)
(* split / replace / sort / toLowerCase / Number are computed the way the  *)
(* runtime computes them.                                                  *)
(***************************************************************************)
EXTENDS Integers, Sequences, FiniteSets, TLC

(***************************************************************************)
(* Bounds of the model                                                     *)
(***************************************************************************)
\* number of getImage calls in one behaviour
MaxCalls == 2
\* largest number of entries of a raw parameter map drawn combinatorially
MaxParams == 2

(***************************************************************************)
(* Characters and strings                                                  *)
(***************************************************************************)
\* printable ASCII in code-unit order, from code 32 (" ") to code 122 ("z");
\* the characters no input uses are entered under their names
Ascii ==
    << " ", "!", "dquote", "#", "$", "%", "&", "'", "lparen", "rparen", "star", "+", ",", "-", ".", "/",
       "0", "1", "2", "3", "4", "5", "6", "7", "8", "9", ":", ";", "<", "=", ">", "?",
       "@", "A", "B", "C", "D", "E", "F", "G", "H", "I", "J", "K", "L", "M", "N", "O",
       "P", "Q", "R", "S", "T", "U", "V", "W", "X", "Y", "Z", "[", "backslash", "]", "^", "_",
       "backtick", "a", "b", "c", "d", "e", "f", "g", "h", "i", "j", "k", "l", "m", "n", "o",
       "p", "q", "r", "s", "t", "u", "v", "w", "x", "y", "z" >>

CharCode(c) == 31 + (CHOOSE i \in 1..Len(Ascii) : Ascii[i] = c)

CharOf(n) == Ascii[n - 31]

IsDigit(c) == CharCode(c) >= 48 /\ CharCode(c) <= 57

ToLowerChar(c) ==
    IF CharCode(c) >= 65 /\ CharCode(c) <= 90 THEN CharOf(CharCode(c) + 32) ELSE c

\* String.prototype.toLowerCase
toLowerCase(s) == [i \in 1..Len(s) |-> ToLowerChar(s[i])]

\* String.prototype.includes for a one-character needle
includes(s, ch) == \E i \in 1..Len(s) : s[i] = ch

\* comparison of two strings by UTF-16 code units (the default order of Array.sort)
RECURSIVE StrLess(_, _)
StrLess(a, b) ==
    IF Len(b) = 0 THEN FALSE
    ELSE IF Len(a) = 0 THEN TRUE
    ELSE IF a[1] = b[1] THEN StrLess(Tail(a), Tail(b))
    ELSE CharCode(a[1]) < CharCode(b[1])

\* String.prototype.split for a one-character separator: the sequence of pieces
RECURSIVE SplitFrom(_, _, _)
SplitFrom(s, ch, cur) ==
    IF Len(s) = 0 THEN << cur >>
    ELSE IF s[1] = ch THEN << cur >> \o SplitFrom(Tail(s), ch, << >>)
    ELSE SplitFrom(Tail(s), ch, Append(cur, s[1]))

split(s, ch) == SplitFrom(s, ch, << >>)

\* Array.prototype.pop on a non-empty array: its last element
pop(arr) == arr[Len(arr)]

\* String.prototype.indexOf, 1-based; 0 when the pattern does not occur
indexOf(s, pat) ==
    LET hits == { i \in 1..(Len(s) - Len(pat) + 1) : SubSeq(s, i, i + Len(pat) - 1) = pat }
    IN  IF hits = {} THEN 0 ELSE CHOOSE i \in hits : \A j \in hits : i <= j

\* String.prototype.replace with a string pattern: the first occurrence only
replace(s, pat, rep) ==
    LET i == indexOf(s, pat)
    IN  IF i = 0 THEN s
        ELSE SubSeq(s, 1, i - 1) \o rep \o SubSeq(s, i + Len(pat), Len(s))

RECURSIVE JoinWith(_, _)
JoinWith(arr, sep) ==
    IF Len(arr) = 0 THEN << >>
    ELSE IF Len(arr) = 1 THEN arr[1]
    ELSE arr[1] \o sep \o JoinWith(Tail(arr), sep)

(***************************************************************************)
(* JavaScript values: strings, numbers, booleans, NaN, undefined           *)
(***************************************************************************)
VStr(s)  == [t |-> "str",   n |-> 0, s |-> s]
VNum(n)  == [t |-> "num",   n |-> n, s |-> << >>]
VBool(b) == [t |-> "bool",  n |-> IF b THEN 1 ELSE 0, s |-> << >>]
VNaN     == [t |-> "nan",   n |-> 0, s |-> << >>]
VUndef   == [t |-> "undef", n |-> 0, s |-> << >>]

\* decimal digits of a natural number
RECURSIVE DigitsOf(_)
DigitsOf(n) ==
    IF n < 10 THEN << CharOf(48 + n) >>
    ELSE Append(DigitsOf(n \div 10), CharOf(48 + (n % 10)))

\* the string a template literal ${value} produces
TemplateString(v) ==
    CASE v.t = "str"  -> v.s
      [] v.t = "num"  -> IF v.n < 0 THEN << "-" >> \o DigitsOf(0 - v.n) ELSE DigitsOf(v.n)
      [] v.t = "bool" -> IF v.n = 1 THEN << "t", "r", "u", "e" >> ELSE << "f", "a", "l", "s", "e" >>
      [] v.t = "nan"  -> << "N", "a", "N" >>
      [] OTHER        -> << "u", "n", "d", "e", "f", "i", "n", "e", "d" >>

RECURSIVE TrimLeft(_)
TrimLeft(s) == IF Len(s) > 0 /\ s[1] = " " THEN TrimLeft(Tail(s)) ELSE s

RECURSIVE TrimRight(_)
TrimRight(s) ==
    IF Len(s) > 0 /\ s[Len(s)] = " " THEN TrimRight(SubSeq(s, 1, Len(s) - 1)) ELSE s

RECURSIVE DigitsValue(_, _)
DigitsValue(s, acc) ==
    IF Len(s) = 0 THEN acc
    ELSE DigitsValue(Tail(s), 10 * acc + (CharCode(s[1]) - 48))

AllDigits(s) == Len(s) > 0 /\ \A i \in 1..Len(s) : IsDigit(s[i])

\* Number(value) on the integer numerals the model draws: surrounding white
\* space is dropped, the empty string is 0, an optional sign precedes the
\* digits, anything else is NaN
Number(v) ==
    CASE v.t = "num"  -> v
      [] v.t = "bool" -> VNum(v.n)
      [] v.t = "str"  ->
            LET s == TrimRight(TrimLeft(v.s))
            IN  IF Len(s) = 0 THEN VNum(0)
                ELSE IF s[1] \in { "+", "-" }
                     THEN IF AllDigits(Tail(s))
                          THEN VNum(IF s[1] = "-" THEN 0 - DigitsValue(Tail(s), 0)
                                                  ELSE DigitsValue(Tail(s), 0))
                          ELSE VNaN
                ELSE IF AllDigits(s) THEN VNum(DigitsValue(s, 0))
                ELSE VNaN
      [] OTHER        -> VNaN

\* truthiness of a value (the if / || / ?: tests of the code)
Truthy(v) ==
    CASE v.t = "str"  -> Len(v.s) > 0
      [] v.t = "num"  -> v.n # 0
      [] v.t = "bool" -> v.n = 1
      [] OTHER        -> FALSE

(***************************************************************************)
(* utils/extras.ts                                                         *)
(***************************************************************************)
\* imageConversionParams: the short code of every recognised key, in the
\* order of the object literal
imageConversionParams ==
    << << "height",    << "h" >> >>,
       << "width",     << "w" >> >>,
       << "quality",   << "q" >> >>,
       << "format",    << "f" >> >>,
       << "blur",      << "b" >> >>,
       << "greyscale", << "g" >> >>,
       << "rotate",    << "r" >> >>,
       << "flip",      << "f", "l", "i", "p" >> >>,
       << "flop",      << "f", "l", "o", "p" >> >>,
       << "tint",      << "t" >> >>,
       << "negate",    << "n" >> >> >>

\* Object.keys(imageConversionParams)
validKeys == { imageConversionParams[i][1] : i \in 1..Len(imageConversionParams) }

\* imageConversionParams[key]; the empty string stands for undefined
ShortCode(key) ==
    IF key \in validKeys
    THEN imageConversionParams[CHOOSE i \in 1..Len(imageConversionParams) :
                                   imageConversionParams[i][1] = key][2]
    ELSE << >>

\* formatMap: every supported extension maps to itself
formatMap ==
    { << "j", "p", "g" >>, << "j", "p", "e", "g" >>, << "p", "n", "g" >>,
      << "w", "e", "b", "p" >>, << "g", "i", "f" >>, << "t", "i", "f", "f" >>,
      << "a", "v", "i", "f" >>, << "h", "e", "i", "f" >>, << "j", "p", "2" >>,
      << "j", "x", "l" >>, << "r", "a", "w" >> }

(***************************************************************************)
(* Errors and results                                                      *)
(***************************************************************************)
\* new ErrorObject(status, message)
ErrorObject(status, msg) == [ok |-> FALSE, eo |-> TRUE, status |-> status, msg |-> msg]
\* a thrown value that is not an ErrorObject (TypeError, SDK or sharp error)
PlainError(msg) == [ok |-> FALSE, eo |-> FALSE, status |-> 0, msg |-> msg]
NoError == [ok |-> TRUE, eo |-> FALSE, status |-> 0, msg |-> ""]

\* null of validateImageExtension
Null == << >>

(***************************************************************************)
(* utils/functions.ts                                                      *)
(***************************************************************************)
\* validateImageExtension: null for an empty extension, the format of the
\* lower-cased extension, or a 400 error
validateImageExtension(extension) ==
    IF extension.t = "undef" THEN [err |-> NoError, val |-> Null]
    ELSE IF extension.t = "num"
         THEN IF extension.n = 0 THEN [err |-> NoError, val |-> Null]
              ELSE [err |-> PlainError("extension.toLowerCase is not a function"), val |-> Null]
    ELSE IF Len(extension.s) = 0 THEN [err |-> NoError, val |-> Null]
    ELSE IF toLowerCase(extension.s) \in formatMap
         THEN [err |-> NoError, val |-> toLowerCase(extension.s)]
         ELSE [err |-> ErrorObject(400, "Unsupported image extension"), val |-> Null]

\* one iteration of the loop of validateQueryParams: the error it throws, or
\* the value it stores under the key
ValidateEntry(key, value) ==
    IF key \notin validKeys
    THEN [err |-> ErrorObject(400, "Unsupported query parameter"), val |-> VUndef]
    ELSE IF key \in { "width", "height", "quality", "blur", "rotate" }
    THEN LET numValue == Number(value)
         IN  IF numValue.t = "nan"
             THEN [err |-> ErrorObject(400, "Invalid number"), val |-> VUndef]
             ELSE IF key = "quality" /\ (numValue.n < 0 \/ numValue.n > 100)
             THEN [err |-> ErrorObject(400, "Quality must be between 0 and 100"), val |-> VUndef]
             ELSE IF key # "quality" /\ numValue.n < 0
             THEN [err |-> ErrorObject(400, "must be a non-negative number"), val |-> VUndef]
             ELSE [err |-> NoError, val |-> numValue]
    ELSE IF key \in { "greyscale", "flip", "flop" }
    THEN IF value.t # "str"
         THEN [err |-> PlainError("value.toLowerCase is not a function"), val |-> VUndef]
         ELSE LET boolValue == toLowerCase(value.s)
              IN  IF boolValue = << "t", "r", "u", "e" >> \/ boolValue = << "1" >>
                  THEN [err |-> NoError, val |-> VBool(TRUE)]
                  ELSE IF boolValue = << "f", "a", "l", "s", "e" >> \/ boolValue = << "0" >>
                  THEN [err |-> NoError, val |-> VBool(FALSE)]
                  ELSE [err |-> ErrorObject(400, "Invalid boolean"), val |-> VUndef]
    ELSE IF key = "format"
    THEN LET r == validateImageExtension(value)
         IN  IF ~r.err.ok THEN [err |-> r.err, val |-> VUndef]
             ELSE IF r.val = Null THEN [err |-> NoError, val |-> VUndef]
             ELSE [err |-> NoError, val |-> VStr(r.val)]
    ELSE IF key = "tint"
    THEN \* hexToRgb never throws on a string; on a number value.replace is
         \* not a function and the catch turns it into the 400 error
         IF value.t = "str" THEN [err |-> NoError, val |-> value]
         ELSE [err |-> ErrorObject(400, "Invalid hex color for tint"), val |-> VUndef]
    ELSE [err |-> ErrorObject(400, "Unhandled query parameter type"), val |-> VUndef]

\* validateQueryParams: entries are visited in insertion order, the first
\* failing entry throws, every other entry stores its converted value
RECURSIVE ValidateFrom(_, _)
ValidateFrom(entries, acc) ==
    IF Len(entries) = 0 THEN [err |-> NoError, val |-> acc]
    ELSE LET e == ValidateEntry(entries[1][1], entries[1][2])
         IN  IF ~e.err.ok THEN [err |-> e.err, val |-> << >>]
             ELSE ValidateFrom(Tail(entries), Append(acc, << entries[1][1], e.val >>))

validateQueryParams(queryParams) == ValidateFrom(queryParams, << >>)

\* Array.prototype.sort() without a comparator, on strings
RECURSIVE InsertSorted(_, _)
InsertSorted(sorted, x) ==
    IF Len(sorted) = 0 THEN << x >>
    ELSE IF StrLess(x, sorted[1]) THEN << x >> \o sorted
    ELSE << sorted[1] >> \o InsertSorted(Tail(sorted), x)

\* sort left out: the array stays in insertion order
sortOmitted(arr) == arr

RECURSIVE sort(_)
sort(arr) ==
    IF Len(arr) = 0 THEN << >>
    ELSE InsertSorted(sort(SubSeq(arr, 1, Len(arr) - 1)), arr[Len(arr)])

\* the key !== "format" test left out: format contributes a token
RECURSIVE NameTokensWithFormat(_)
NameTokensWithFormat(entries) ==
    IF Len(entries) = 0 THEN << >>
    ELSE IF ShortCode(entries[1][1]) # << >>
         THEN << ShortCode(entries[1][1]) \o << "-" >> \o TemplateString(entries[1][2]) >>
                  \o NameTokensWithFormat(Tail(entries))
         ELSE NameTokensWithFormat(Tail(entries))

\* the params array createNameFromParams pushes to, in insertion order
RECURSIVE NameTokens(_)
NameTokens(entries) ==
    IF Len(entries) = 0 THEN << >>
    ELSE LET key == entries[1][1]
             value == entries[1][2]
         IN  IF key # "format" /\ ShortCode(key) # << >>
             THEN << ShortCode(key) \o << "-" >> \o TemplateString(value) >>
                      \o NameTokens(Tail(entries))
             ELSE NameTokens(Tail(entries))

\* the text a template literal gives an extension (null prints as "null")
ExtensionString(imageExtension) ==
    IF imageExtension = Null THEN << "n", "u", "l", "l" >> ELSE imageExtension

createNameFromParams(imageName, imageExtension, queryParams) ==
    LET params == NameTokens(queryParams)
    IN  IF Len(params) > 0
        THEN imageName \o << "-" >> \o JoinWith(sort(params), << "-" >>)
                 \o << "." >> \o ExtensionString(imageExtension)
        ELSE imageName \o << "." >> \o ExtensionString(imageExtension)

(***************************************************************************)
(* controller/ctrlImage.ts: the transform pipeline                         *)
(***************************************************************************)
\* operations[key]: the value stored under a key, undefined when absent
Get(operations, key) ==
    IF \E i \in 1..Len(operations) : operations[i][1] = key
    THEN operations[CHOOSE i \in 1..Len(operations) : operations[i][1] = key][2]
    ELSE VUndef

SharpOp(name, args) == [name |-> name, args |-> args]

\* the body of the for-loop of convertImage: the sharp call an entry makes
RECURSIVE LoopOps(_)
LoopOps(entries) ==
    IF Len(entries) = 0 THEN << >>
    ELSE LET methodName == entries[1][1]
             arg == entries[1][2]
             rest == LoopOps(Tail(entries))
         IN  CASE methodName = "rotate"    -> << SharpOp("rotate", << arg >>) >> \o rest
               [] methodName = "greyscale" -> << SharpOp("grayscale", << >>) >> \o rest
               [] methodName = "blur"      -> << SharpOp("blur", << arg >>) >> \o rest
               [] methodName = "flip"      -> << SharpOp("flip", << >>) >> \o rest
               [] methodName = "flop"      -> << SharpOp("flop", << >>) >> \o rest
               [] methodName = "tint"      -> << SharpOp("tint", << arg >>) >> \o rest
               [] OTHER                    -> rest

\* the sequence of sharp calls convertImage makes before toBuffer
convertImagePipeline(operations, extension) ==
    (IF Truthy(Get(operations, "width")) \/ Truthy(Get(operations, "height"))
     THEN << SharpOp("resize", << Get(operations, "width"), Get(operations, "height") >>) >>
     ELSE << >>)
    \o LoopOps(operations)
    \o (IF Truthy(Get(operations, "format")) \/ Truthy(Get(operations, "quality"))
        THEN << SharpOp("toFormat",
                        << VStr(ExtensionString(extension)),
                           IF Truthy(Get(operations, "quality"))
                           THEN Number(Get(operations, "quality")) ELSE VUndef >>) >>
        ELSE << >>)

\* image bytes: the original they come from and the pipelines applied to it
OriginalBytes(path) == [src |-> path, applied |-> << >>]

\* the input buffer is returned as it came
convertImageUnapplied(inputBuffer, operations, extension) == inputBuffer

\* convertImage on success: the bytes toBuffer returns
convertImage(inputBuffer, operations, extension) ==
    [src |-> inputBuffer.src,
     applied |-> Append(inputBuffer.applied, convertImagePipeline(operations, extension))]

(***************************************************************************)
(* storage/s3.ts: the object key an operation addresses                    *)
(***************************************************************************)
\* convertPath ignored: every write goes under the prefix of the originals
uploadFileKeyUnderPrefix(config, key) == config.prefix \o key

\* uploadFile: Key = (convertPath || prefix) + key
uploadFileKey(config, key) ==
    (IF Len(config.convertPath) > 0 THEN config.convertPath ELSE config.prefix) \o key

\* fromConvertPath ignored: every read goes to convertPath || prefix
readFileKeyAlwaysConverted(config, key, fromConvertPath) ==
    (IF Len(config.convertPath) > 0 THEN config.convertPath ELSE config.prefix) \o key

\* readFile: Key = (fromConvertPath && convertPath ? convertPath : prefix) + key
readFileKey(config, key, fromConvertPath) ==
    (IF fromConvertPath /\ Len(config.convertPath) > 0
     THEN config.convertPath ELSE config.prefix) \o key

(***************************************************************************)
(* utils/silent.ts                                                         *)
(***************************************************************************)
\* the catch re-throwing: the rejection reaches the caller
SilentRethrowing(name, outcome) == outcome

\* Silent(name, fn): what escapes to the caller when the awaited promise
\* settles with the given outcome; the catch logs and swallows a rejection
Silent(name, outcome) == NoError

(***************************************************************************)
(* Inputs of the model                                                     *)
(***************************************************************************)
Calls == 1..MaxCalls

\* the registered backend and a name that is not registered
Backends == { "s3", "unregistered" }
Registered == { "s3" }

PathSimple   == << "p", ".", "j", "p", "g" >>
PathInDir    == << "d", "/", "p", ".", "j", "p", "g" >>
PathTwoDots  == << "a", ".", "b", ".", "j", "p", "g" >>
PathNoExt    == << "n", "o", "e", "x", "t" >>
PathMissing  == << "m", ".", "j", "p", "g" >>
Paths == { PathSimple, PathInDir, PathTwoDots, PathNoExt, PathMissing }

\* the paths whose original is in the bucket from the start
StoredPaths == { PathSimple, PathInDir, PathTwoDots }

Configs ==
    { [prefix |-> << "o", "/" >>, convertPath |-> << >>],
      [prefix |-> << "o", "/" >>, convertPath |-> << "c", "/" >>] }

RawEmpty      == << >>
RawWidth      == << << "width", VStr(<< "6" >>) >> >>
RawGreyTrue   == << << "greyscale", VStr(<< "t", "r", "u", "e" >>) >> >>
RawGreyOne    == << << "greyscale", VStr(<< "1" >>) >> >>
RawBadQuality == << << "quality", VStr(<< "1", "0", "1" >>) >> >>
GetRawMaps == { RawEmpty, RawWidth, RawGreyTrue, RawGreyOne, RawBadQuality }
\* a change of format, and a query string with an empty value (?format=)
RawFormat     == << << "format", VStr(<< "w", "e", "b", "p" >>) >> >>
RawEmptyValue == << << "format", VStr(<< >>) >> >>

\* the getImage requests of the model: the change of format on the plain and
\* on the nested path, the missing path with a valid map, every other map
\* with the plain path, the path without extension with the empty and the
\* valid map, and an unregistered backend with both paths and both maps
Requests ==
    { << PathSimple, "s3", RawFormat >>, << PathInDir, "s3", RawFormat >>,
      << PathMissing, "s3", RawWidth >> }
    \cup { << PathSimple, "s3", q >> :
              q \in (GetRawMaps \ { RawWidth }) \cup { RawEmptyValue } }
    \cup { << PathNoExt, "s3", q >> : q \in { RawEmpty, RawWidth } }
    \cup { << p, "unregistered", q >> : p \in { PathSimple, PathNoExt },
                                        q \in { RawEmpty, RawWidth } }

(***************************************************************************)
(* State                                                                   *)
(***************************************************************************)
VARIABLES
    config,     \* the S3 configuration of the registered backend
    store,      \* the bucket: object key -> bytes
    nWrites,    \* number of uploads the bucket has applied
    call,       \* the getImage calls: position, inputs, locals, result
    fn,         \* one application of the pure functions of utils/functions.ts
    batch,      \* the batch run: position, inputs, counters, history
    redis,      \* the progress store: token -> stored snapshot
    poll        \* the last answer of GET /batch/progress/:token

vars == << config, store, nWrites, call, fn, batch, redis, poll >>

batchVars == << batch, redis, poll >>

NoLoc == << >>

(***************************************************************************)
(* middleware/middlewareResponse.ts and router/routeImage.ts: responses    *)
(***************************************************************************)
ApplicationJson ==
    << "a", "p", "p", "l", "i", "c", "a", "t", "i", "o", "n", "/", "j", "s", "o", "n" >>

\* the members of a JSON error body: success and one member with a text
NoJson == [success |-> TRUE, key |-> "", text |-> ""]

NoResponse ==
    [status |-> 0, contentType |-> << >>, body |-> "none", image |-> OriginalBytes(<< >>),
     json |-> NoJson]

\* ErrorObject.json(): { success: false, error }
json(error) == [success |-> FALSE, key |-> "error", text |-> error.msg]

\* the catch of MiddlewareResponse: the status of an ErrorObject (500 when
\* it carries none) with err.json(); 500 with { success: false, message }
\* for a thrown value of any other kind
ErrorResponse(error) ==
    [status |-> IF error.eo /\ error.status # 0 THEN error.status ELSE 500,
     contentType |-> ApplicationJson, body |-> "error", image |-> OriginalBytes(<< >>),
     json |-> IF error.eo THEN json(error)
              ELSE [success |-> FALSE, key |-> "message",
                    text |-> IF error.msg # "" THEN error.msg ELSE "something went wrong"]]

\* the loop of the image route that copies the query: only non-empty string
\* values are handed to getImage
RECURSIVE processedQueryParams(_)
processedQueryParams(queryParams) ==
    IF Len(queryParams) = 0 THEN << >>
    ELSE IF queryParams[1][2].t = "str" /\ Len(queryParams[1][2].s) > 0
         THEN << queryParams[1] >> \o processedQueryParams(Tail(queryParams))
         ELSE processedQueryParams(Tail(queryParams))

\* the Content-Type of the image route, computed from the request path
contentType(location) ==
    LET last == pop(split(location, "."))
        extension == IF Len(last) > 0 THEN last ELSE << "j", "p", "e", "g" >>
    IN  << "i", "m", "a", "g", "e", "/" >>
            \o (IF extension = << "j", "p", "g" >> THEN << "j", "p", "e", "g" >> ELSE extension)

\* new Response(image, headers) where image is what getImage resolved with:
\* the object {image, extension} is not a buffer, so the body is the text
\* of the object and not the bytes it holds
ImageResponse(location, image, extension) ==
    [status |-> 200, contentType |-> contentType(location), body |-> "objectText",
     image |-> OriginalBytes(<< >>), json |-> NoJson]

IdleCall ==
    [pc |-> "idle", imagePath |-> << >>, storageName |-> "", queryParams |-> << >>,
     validatedParams |-> << >>, originalName |-> << >>, parsedName |-> << >>,
     extension |-> << >>, cacheLoc |-> NoLoc, cacheOutcome |-> "none",
     origLoc |-> NoLoc, origReads |-> 0, origOutcome |-> "none", image |-> OriginalBytes(<< >>),
     transforms |-> 0, uploadLoc |-> NoLoc, upload |-> "none", uploadSeq |-> 0,
     startSeq |-> 0, readSeq |-> 0,
     err |-> NoError, resImage |-> OriginalBytes(<< >>), resExtension |-> << >>,
     response |-> NoResponse]

\* a {done, pending, errors} progress object
Progress(done, pending, errors) == [done |-> done, pending |-> pending, errors |-> errors]

\* the locals of the loop body of _processFiles for the file being processed
NoFile ==
    [originalName |-> << >>, parsedName |-> << >>, extension |-> << >>,
     reads |-> << >>, image |-> OriginalBytes(<< >>)]

NoBatchResponse == [status |-> 0, success |-> FALSE, token |-> "", filesBefore |-> 0]

IdleBatch ==
    [pc |-> "idle", entry |-> "", variant |-> "", token |-> "", storageName |-> "",
     directoryPath |-> << >>, files |-> << >>, transformations |-> << >>,
     listing |-> "none", idx |-> 0, done |-> 0, pending |-> 0, errors |-> << >>,
     file |-> NoFile, log |-> << >>, saves |-> << >>, persisted |-> 0,
     err |-> NoError, response |-> NoBatchResponse, faults |-> 0,
     pages |-> << >>, listed |-> << >>, continuationToken |-> 0]

Tokens == { "t0", "t1" }

\* JSON.stringify(progress): the members of the text. Numbers are written
\* as decimal numerals; errors keep the file path and, of the error, its
\* status and message
stringify(progress) ==
    [done |-> DigitsOf(progress.done), pending |-> DigitsOf(progress.pending),
     errors |-> [i \in 1..Len(progress.errors) |->
                    [filePath |-> progress.errors[i].filePath,
                     status |-> DigitsOf(progress.errors[i].error.status),
                     msg |-> progress.errors[i].error.msg]]]

\* JSON.parse of a stored text: numerals are read back as numbers
parse(text) ==
    [done |-> DigitsValue(text.done, 0), pending |-> DigitsValue(text.pending, 0),
     errors |-> [i \in 1..Len(text.errors) |->
                    [filePath |-> text.errors[i].filePath,
                     status |-> DigitsValue(text.errors[i].status, 0),
                     msg |-> text.errors[i].msg]]]

\* the progress store without any key
NoRecords ==
    [t \in Tokens |-> [present |-> FALSE, text |-> stringify(Progress(0, 0, << >>))]]

NoPoll ==
    [token |-> "", status |-> 0, success |-> FALSE, progress |-> Progress(0, 0, << >>),
     answered |-> FALSE, persisted |-> 0]

IdleFn ==
    [pc |-> "off", imageName |-> << >>, imageExtension |-> << >>, queryParams |-> << >>,
     validated |-> [err |-> NoError, val |-> << >>], name |-> << >>, pipeline |-> << >>]

Init ==
    /\ config \in Configs
    /\ store = [k \in { config.prefix \o p : p \in StoredPaths } |-> OriginalBytes(k)]
    /\ nWrites = 0
    /\ call = [c \in Calls |-> IdleCall]
    /\ fn = IdleFn
    /\ batch = IdleBatch
    /\ redis = NoRecords
    /\ poll = NoPoll

\* a call that throws or rejects: the request ends with the error
Fail(c, rec, error) ==
    call' = [call EXCEPT ![c] = [rec EXCEPT !.pc = "done", !.err = error,
                                            !.response = ErrorResponse(error)]]

(***************************************************************************)
(* storage/s3.ts: readFile                                                 *)
(***************************************************************************)
\* number of failures the environment injects in one behaviour (storage
\* reads, listings and writes, the image library, progress-store writes)
MaxFaults == 1

\* the failures injected into a getImage call so far: an SDK failure of the
\* cache-key read or of the read of the original, a failure of sharp, a
\* failed PutObject
CallFaults(c) ==
    (IF call[c].cacheOutcome = "failure" THEN 1 ELSE 0)
    + (IF call[c].origOutcome = "failure" THEN 1 ELSE 0)
    + (IF call[c].transforms = 1 /\ call[c].upload = "none" /\ call[c].pc = "done" THEN 1 ELSE 0)
    + (IF call[c].upload = "failed" THEN 1 ELSE 0)

RECURSIVE FaultsUpTo(_)
FaultsUpTo(n) == IF n = 0 THEN 0 ELSE CallFaults(n) + FaultsUpTo(n - 1)

\* the failures injected into all getImage calls so far
Faults == FaultsUpTo(MaxCalls)

\* the outcome of GetObject on a key: the bytes, a 404 ErrorObject when the
\* key is absent (NoSuchKey), a 502 ErrorObject on any other SDK failure
readFile(key, sdkFailure) ==
    IF sdkFailure THEN [err |-> ErrorObject(502, "sdk error"), val |-> OriginalBytes(<< >>)]
    ELSE IF key \in DOMAIN store THEN [err |-> NoError, val |-> store[key]]
    ELSE [err |-> ErrorObject(404, "Image not exists in storage"), val |-> OriginalBytes(<< >>)]

(***************************************************************************)
(* controller/ctrlImage.ts: getImage and processImage                      *)
(***************************************************************************)
\* the extension check left out
HasExtensionUnchecked(imagePath) == TRUE

\* imagePath.includes(".")
HasExtension(imagePath) == includes(imagePath, ".")

\* the empty-spec check left out
IsEmptySpecUnchecked(validatedParams) == FALSE

\* Object.keys(validatedParams).length === 0
IsEmptySpec(validatedParams) == Len(validatedParams) = 0

\* every failure of the cache-key read selects the recompute path
IsNotFoundAnyFailure(error) == TRUE

\* the test of the catch of getImage that selects the recompute path
IsNotFound(error) == error.eo /\ error.status = 404

\* the key processImage hands to uploadFile
ConvertedKey(originalPath, originalName, parsedName) ==
    replace(originalPath, originalName, parsedName)

\* getImage up to its first suspension: the synchronous checks, the name
\* derivation and the start of the cache-key read
GetImage(c, imagePath, storageName, queryParams) ==
    /\ call[c].pc = "idle"
    /\ IF c = 1 THEN TRUE ELSE call[c - 1].pc # "idle"
    /\ LET ext == pop(split(imagePath, "."))
           name == split(pop(split(imagePath, "/")), ".")[1]
           originalName == name \o << "." >> \o ext
           validated == validateQueryParams(queryParams)
           newExtension == validateImageExtension(Get(queryParams, "format"))
           originalExtension == validateImageExtension(VStr(ext))
           extension == IF newExtension.val # Null THEN newExtension.val
                        ELSE originalExtension.val
           parsedName == createNameFromParams(name, extension, queryParams)
           rec == [IdleCall EXCEPT !.imagePath = imagePath, !.storageName = storageName,
                                   !.queryParams = queryParams, !.startSeq = nWrites]
       IN  IF ~HasExtension(imagePath)
           THEN Fail(c, rec, ErrorObject(400, "File extension is missing"))
           ELSE IF ~validated.err.ok THEN Fail(c, rec, validated.err)
           ELSE IF IsEmptySpec(validated.val)
           THEN Fail(c, rec, ErrorObject(400, "Query params required for conversion"))
           ELSE IF ~newExtension.err.ok THEN Fail(c, rec, newExtension.err)
           ELSE IF ~originalExtension.err.ok THEN Fail(c, rec, originalExtension.err)
           ELSE IF storageName \notin Registered
           THEN Fail(c, [rec EXCEPT !.validatedParams = validated.val],
                     PlainError("undefined is not an object"))
           ELSE call' = [call EXCEPT ![c] =
                    [rec EXCEPT !.pc = "cacheRead",
                                !.validatedParams = validated.val,
                                !.originalName = originalName,
                                !.parsedName = parsedName,
                                !.extension = extension,
                                !.cacheLoc = readFileKey(config, parsedName, TRUE)]]
    /\ UNCHANGED << config, store, nWrites, fn, batchVars >>

\* readFile(parsedName) settles: resolve with the cached bytes, enter
\* processImage on a 404 (which starts the read of the original), or reject
CacheReadReturn(c) ==
    /\ call[c].pc = "cacheRead"
    /\ \E sdkFailure \in BOOLEAN :
         /\ sdkFailure => Faults < MaxFaults
         /\ LET r == readFile(call[c].cacheLoc, sdkFailure)
                rec == [call[c] EXCEPT !.readSeq = nWrites,
                                       !.cacheOutcome =
                                           IF r.err.ok THEN "hit"
                                           ELSE IF r.err.status = 404 THEN "notfound"
                                           ELSE "failure"]
            IN  IF r.err.ok
                THEN call' = [call EXCEPT ![c] =
                         [rec EXCEPT !.pc = "done",
                                     !.resImage = r.val, !.resExtension = rec.extension,
                                     !.response = ImageResponse(rec.imagePath, r.val,
                                                                rec.extension)]]
                ELSE IF IsNotFound(r.err)
                THEN call' = [call EXCEPT ![c] =
                         [rec EXCEPT !.pc = "origRead",
                                     !.origReads = rec.origReads + 1,
                                     !.origLoc = readFileKey(config, rec.imagePath, FALSE)]]
                ELSE Fail(c, rec, r.err)
    /\ UNCHANGED << config, store, nWrites, fn, batchVars >>

\* processImage: readFile(originalPath, false) settles
OrigReadReturn(c) ==
    /\ call[c].pc = "origRead"
    /\ \E sdkFailure \in BOOLEAN :
         /\ sdkFailure => Faults < MaxFaults
         /\ LET r == readFile(call[c].origLoc, sdkFailure)
                rec == [call[c] EXCEPT !.origOutcome =
                           IF r.err.ok THEN "found"
                           ELSE IF r.err.status = 404 THEN "notfound" ELSE "failure"]
            IN  IF r.err.ok
                THEN call' = [call EXCEPT ![c] = [rec EXCEPT !.pc = "convert", !.image = r.val]]
                ELSE Fail(c, rec, r.err)
    /\ UNCHANGED << config, store, nWrites, fn, batchVars >>

\* processImage: convertImage settles; on success the upload is started
\* through Silent and the converted image is returned at once
ConvertReturn(c) ==
    /\ call[c].pc = "convert"
    /\ LET rec == [call[c] EXCEPT !.transforms = call[c].transforms + 1]
           converted == convertImage(rec.image, rec.validatedParams, rec.extension)
       IN  \/ call' = [call EXCEPT ![c] =
                  [rec EXCEPT !.pc = "done", !.upload = "inflight",
                              !.uploadLoc = uploadFileKey(config,
                                  ConvertedKey(rec.imagePath, rec.originalName, rec.parsedName)),
                              !.resImage = converted, !.resExtension = rec.extension,
                              !.response = ImageResponse(rec.imagePath, converted,
                                                         rec.extension)]]
           \/ /\ Faults < MaxFaults
              /\ Len(LoopOps(rec.validatedParams)) > 0
              /\ Fail(c, rec, ErrorObject(400, "Failed to apply operation"))
           \/ /\ Faults < MaxFaults
              /\ Fail(c, rec, ErrorObject(502, "Sharp processing failed"))
    /\ UNCHANGED << config, store, nWrites, fn, batchVars >>

\* the PutObject started by processImage settles; Silent awaits it
UploadReturn(c) ==
    /\ call[c].upload = "inflight"
    /\ \/ /\ store' = [k \in DOMAIN store \cup { call[c].uploadLoc } |->
                          IF k = call[c].uploadLoc THEN call[c].resImage ELSE store[k]]
          /\ nWrites' = nWrites + 1
          /\ call' = [call EXCEPT ![c] =
                 [call[c] EXCEPT !.upload = "ok", !.uploadSeq = nWrites + 1]]
       \/ /\ Faults < MaxFaults
          /\ LET escaped == Silent("saveImageConverted", ErrorObject(502, "sdk error"))
             IN  call' = [call EXCEPT ![c] =
                     [call[c] EXCEPT !.upload = "failed",
                                     !.err = IF escaped.ok THEN call[c].err ELSE escaped]]
          /\ UNCHANGED << store, nWrites >>
    /\ UNCHANGED << config, fn, batchVars >>

Next ==
    \E c \in Calls :
        \/ \E request \in Requests :
               GetImage(c, request[1], request[2], processedQueryParams(request[3]))
        \/ CacheReadReturn(c)
        \/ OrigReadReturn(c)
        \/ ConvertReturn(c)
        \/ UploadReturn(c)

Spec == Init /\ [][Next]_vars

(***************************************************************************)
(* The pure functions of utils/functions.ts applied to drawn inputs        *)
(***************************************************************************)
\* the key/value entries raw maps are drawn from: numerals and non-numerals,
\* boundary and out-of-range values, the spellings of booleans, supported
\* and unsupported formats, a key without a handler and an unknown key;
\* a number value is what a JSON body carries
FnEntries ==
    { << "width", v >> : v \in { VStr(<< "6", "0", "0" >>), VStr(<< "0" >>), VStr(<< "-", "5" >>), VStr(<< " " >>), VStr(<< "a", "b", "c" >>), VNum(600) } }
    \cup
    { << "height", v >> : v \in { VStr(<< "8", "0", "0" >>), VNum(800) } }
    \cup
    { << "quality", v >> : v \in { VStr(<< "0" >>), VStr(<< "1", "0", "0" >>), VStr(<< "1", "0", "1" >>), VStr(<< "-", "1" >>) } }
    \cup
    { << "greyscale", v >> : v \in { VStr(<< "t", "r", "u", "e" >>), VStr(<< "1" >>), VStr(<< "T", "R", "U", "E" >>), VStr(<< "f", "a", "l", "s", "e" >>), VStr(<< "y", "e", "s" >>) } }
    \cup
    { << "format", v >> : v \in { VStr(<< "w", "e", "b", "p" >>), VStr(<< "d", "o", "c", "x" >>), VStr(<< "P", "N", "G" >>), VStr(<< >>) } }
    \cup
    { << "blur", v >> : v \in { VStr(<< "-", "1" >>) } }
    \cup
    { << "rotate", v >> : v \in { VStr(<< "9", "0" >>) } }
    \cup
    { << "flip", v >> : v \in { VStr(<< "0" >>) } }
    \cup
    { << "tint", v >> : v \in { VStr(<< "z", "z", "z", "z", "z", "z" >>), VStr(<< "#", "F", "F", "0", "0", "0", "0" >>) } }
    \cup
    { << "negate", v >> : v \in { VStr(<< "1" >>) } }
    \cup
    { << "foo", v >> : v \in { VStr(<< "1" >>) } }

DistinctKeys(entries) ==
    \A i, j \in 1..Len(entries) : i # j => entries[i][1] # entries[j][1]

\* a raw map is an object: its entries in insertion order, no key twice
FnRawMaps ==
    { q \in UNION { [1..m -> FnEntries] : m \in 0..MaxParams } : DistinctKeys(q) }

FnNames == { << "p", "1" >> }
FnExtensions == { << "w", "e", "b", "p" >>, << "j", "p", "g" >> }

InitFn ==
    /\ config = [prefix |-> << "o", "/" >>, convertPath |-> << >>]
    /\ store = [k \in { config.prefix \o p : p \in StoredPaths } |-> OriginalBytes(k)]
    /\ nWrites = 0
    /\ call = [c \in Calls |-> IdleCall]
    /\ fn \in { [IdleFn EXCEPT !.pc = "drawn", !.imageName = n, !.imageExtension = e,
                               !.queryParams = q] :
                    n \in FnNames, e \in FnExtensions, q \in FnRawMaps }
    /\ batch = IdleBatch
    /\ redis = NoRecords
    /\ poll = NoPoll

\* validateQueryParams(queryParams)
FnValidate ==
    /\ fn.pc = "drawn"
    /\ fn' = [fn EXCEPT !.pc = "validated", !.validated = validateQueryParams(fn.queryParams)]
    /\ UNCHANGED << config, store, nWrites, call, batchVars >>

\* createNameFromParams(imageName, imageExtension, queryParams)
FnCreateName ==
    /\ fn.pc = "validated"
    /\ fn' = [fn EXCEPT !.pc = "named",
                        !.name = createNameFromParams(fn.imageName, fn.imageExtension,
                                                      fn.queryParams)]
    /\ UNCHANGED << config, store, nWrites, call, batchVars >>

\* convertImage(inputBuffer, validatedParams, imageExtension) up to toBuffer:
\* the sharp calls it makes on the validated map
FnConvert ==
    /\ fn.pc = "named"
    /\ fn.validated.err.ok
    /\ fn' = [fn EXCEPT !.pc = "converted",
                        !.pipeline = convertImagePipeline(fn.validated.val, fn.imageExtension)]
    /\ UNCHANGED << config, store, nWrites, call, batchVars >>

NextFn == FnValidate \/ FnCreateName \/ FnConvert

SpecFn == InitFn /\ [][NextFn]_vars

(***************************************************************************)
(* Inputs of the batch runner                                              *)
(***************************************************************************)
\* longest file list handed to the list variant
MaxFiles == 5

\* a registered S3 backend, a registered FTP backend, an unknown name
BatchStorages == { "s3", "ftp", "unregistered" }

PathDocx == << "x", ".", "d", "o", "c", "x" >>

\* five files of which the third has no original
FiveFiles == << PathSimple, PathInDir, PathMissing, PathTwoDots, PathSimple >>

\* six files of which only the last is an image
SixFiles == << PathNoExt, PathDocx, PathNoExt, PathDocx, PathNoExt, PathSimple >>

FileLists ==
    { l \in { << >>, << PathSimple >>, << PathNoExt, PathDocx, PathSimple >>,
              FiveFiles, SixFiles } : Len(l) <= MaxFiles }

DirD == << "d", "/" >>
DirO == << "o", "/" >>
Directories == { << >>, DirD, DirO }

\* the S3 configurations of the batch runs: originals under "o/" or at the
\* root of the bucket
BatchConfigs == Configs \cup { [prefix |-> << >>, convertPath |-> << >>] }

BatchMaps == { RawEmpty, RawWidth, RawGreyTrue, RawBadQuality }

\* the bodies of POST /batch/process/list
ListRequests ==
    { << "s3", l, RawWidth >> : l \in FileLists }
    \cup { << b, << PathSimple >>, q >> : b \in { "s3", "unregistered" }, q \in BatchMaps }
    \cup { << "s3", << PathNoExt, PathDocx, PathSimple >>, RawGreyTrue >> }

\* the arguments of direct calls of batchTransformAndUploadFromList
ListCalls ==
    { << b, << >>, q >> : b \in { "s3", "unregistered" }, q \in { RawEmpty, RawWidth } }

\* the bodies of POST /batch/process/directory
DirectoryRequests ==
    { << "s3", d, RawWidth >> : d \in Directories }
    \cup { << b, DirD, q >> : b \in BatchStorages, q \in BatchMaps }

(***************************************************************************)
(* controller/ctrlRedis.ts: the progress store                             *)
(***************************************************************************)
\* only the first snapshot of a run is issued
IssueSaveOnce(saves, token, progress) ==
    IF Len(saves) = 0 THEN Append(saves, [token |-> token, progress |-> progress]) ELSE saves

\* saveProgress(token, progress): the SET it issues
IssueSave(saves, token, progress) == Append(saves, [token |-> token, progress |-> progress])

\* the record of a token is never found
ProgressFoundNever(progress) == FALSE

\* the test of the progress route on what getProgress returned
ProgressFound(progress) == progress.found

\* getProgress(token): the parsed record, null when the key is absent or
\* the store fails
getProgress(token, storeAnswers) ==
    IF storeAnswers /\ redis[token].present
    THEN [found |-> TRUE, val |-> parse(redis[token].text)]
    ELSE [found |-> FALSE, val |-> Progress(0, 0, << >>)]

(***************************************************************************)
(* storage/storageManager.ts and storage/s3.ts: listFiles                  *)
(***************************************************************************)
startsWith(s, prefix) == Len(s) >= Len(prefix) /\ SubSeq(s, 1, Len(prefix)) = prefix

\* the keys of a set in ascending order, as ListObjectsV2 returns them
RECURSIVE Ascending(_)
Ascending(keys) ==
    IF keys = {} THEN << >>
    ELSE LET least == CHOOSE k \in keys : \A j \in keys : j = k \/ StrLess(k, j)
         IN  << least >> \o Ascending(keys \ { least })

\* largest number of keys in one page of a listing
PageSize == 2

\* the answer of one ListObjectsV2 request: the next keys, at most count of
\* them, of the keys that start with the directory path, after the keys
\* the continuation token stands for, and the token of the next page when
\* keys are left; token 0 is the undefined token
ListObjectsV2(directoryPath, continuationToken, count, sdkFailure) ==
    LET all == Ascending({ k \in DOMAIN store : startsWith(k, directoryPath) })
        upTo == IF continuationToken + count < Len(all)
                THEN continuationToken + count ELSE Len(all)
    IN  IF sdkFailure
        THEN [err |-> ErrorObject(502, "sdk error"), Contents |-> << >>,
              NextContinuationToken |-> 0]
        ELSE [err |-> NoError, Contents |-> SubSeq(all, continuationToken + 1, upTo),
              NextContinuationToken |-> IF upTo < Len(all) THEN upTo ELSE 0]

\* the loop ends after the first page
WhileContinuationNever(continuationToken) == FALSE

\* while (continuationToken) of S3Manager.listFiles
WhileContinuation(continuationToken) == continuationToken # 0

\* a backend without listing answers with no file
listFilesUnsupportedAsEmpty(storageName, response) ==
    IF storageName = "s3" THEN response
    ELSE [err |-> NoError, Contents |-> << >>, NextContinuationToken |-> 0]

\* StorageManager.listFiles: the listing of S3Manager on S3, a 500 error on
\* every other backend type
listFiles(storageName, response) ==
    IF storageName = "s3" THEN response
    ELSE [err |-> ErrorObject(500, "List files operation not supported for this storage type."),
          Contents |-> << >>, NextContinuationToken |-> 0]

(***************************************************************************)
(* controller/ctrlBatch.ts and router/routeBatch.ts                        *)
(***************************************************************************)
\* every backend name is taken as registered
storageFoundAlways(storageName) == TRUE

\* Globals.storage[storageName] is defined
storageFound(storageName) == storageName \in { "s3", "ftp" }

\* Silent returns only when the promise has settled
SilentBlocksAlways(name) == TRUE

\* Silent starts an async function of its own and returns without its result
SilentBlocks(name) == FALSE

\* the failure of a file is not recorded
pushErrorDropped(errors, filePath, error) == errors

\* errors.push({ filePath, error: error.message || error })
pushError(errors, filePath, error) == Append(errors, [filePath |-> filePath, error |-> error])

\* the checks both variants make first: the error they throw, if any
Preconditions(storageName, transformations) ==
    LET validateTransformations == validateQueryParams(transformations)
    IN  IF ~validateTransformations.err.ok THEN validateTransformations.err
        ELSE IF ~storageFound(storageName) THEN ErrorObject(400, "Storage not found.")
        ELSE IF IsEmptySpec(validateTransformations.val)
        THEN ErrorObject(400, "No transformations provided.")
        ELSE NoError

\* the route handler's answer { success: true, message, token }
Answered(b) ==
    [b EXCEPT !.response = [status |-> 200, success |-> TRUE, token |-> b.token,
                            filesBefore |-> Len(b.log)]]

\* the handler returns c.json(...) as soon as Silent has returned
AfterStep(b) ==
    IF /\ b.entry = "route"
       /\ b.response.status = 0
       /\ (~SilentBlocks("batchTransformation") \/ b.pc \in { "finished", "rejected" })
    THEN Answered(b)
    ELSE b

\* the promise of the run rejects; Silent logs the error
Rejected(b, error) == [b EXCEPT !.pc = "rejected", !.err = error]

\* Silent(name, saveProgress(token, progress)): the snapshot is issued; the
\* store takes it or fails, and saveProgress hides the failure
Save(b, progress, storeOk) ==
    LET saves == IssueSave(b.saves, b.token, progress)
        issued == Len(saves) > Len(b.saves)
    IN  [b EXCEPT !.saves = saves,
                  !.persisted = IF issued /\ storeOk THEN Len(saves) ELSE @,
                  !.faults = IF issued /\ ~storeOk THEN @ + 1 ELSE @]

\* the snapshot issued first is the one that lands last
RedisAfterFirstIssued(b) ==
    IF Len(b.saves) > Len(batch.saves) /\ b.persisted = Len(b.saves)
    THEN [redis EXCEPT ![b.token] =
              [present |-> TRUE, text |-> stringify(b.saves[1].progress)]]
    ELSE redis

\* the progress store after a step that took the run from batch to b
RedisAfter(b) ==
    IF Len(b.saves) > Len(batch.saves) /\ b.persisted = Len(b.saves)
    THEN [redis EXCEPT ![b.token] =
              [present |-> TRUE, text |-> stringify(b.saves[Len(b.saves)].progress)]]
    ELSE redis

\* _processFiles up to the first suspension of its loop
processFilesStart(b, files, storeOk) ==
    LET counted == [b EXCEPT !.files = files, !.done = 0, !.pending = Len(files),
                             !.errors = << >>, !.idx = 1]
        saved == Save(counted, Progress(0, Len(files), << >>), storeOk)
    IN  [saved EXCEPT !.pc = IF Len(files) = 0 THEN "finished" ELSE "loop"]

\* the loop ends one file early
AdvanceSkipsLast(b) ==
    [b EXCEPT !.idx = @ + 1, !.file = NoFile,
              !.pc = IF b.idx + 1 >= Len(b.files) THEN "finished" ELSE "loop"]

\* the loop goes to the next file, or ends and the promise resolves
Advance(b) ==
    [b EXCEPT !.idx = @ + 1, !.file = NoFile,
              !.pc = IF b.idx + 1 > Len(b.files) THEN "finished" ELSE "loop"]

\* the catch leaves pending as it was
FileFailedPendingKept(b, error, transforms, storeOk) ==
    LET filePath == b.files[b.idx]
        counted == [b EXCEPT !.errors = pushError(@, filePath, error),
                             !.log = Append(@, [filePath |-> filePath, ok |-> FALSE,
                                                error |-> error, reads |-> b.file.reads,
                                                transforms |-> transforms,
                                                uploadLoc |-> NoLoc, upload |-> "none",
                                                existed |-> FALSE,
                                                image |-> OriginalBytes(<< >>)])]
    IN  Advance(Save(counted, Progress(counted.done, counted.pending, counted.errors),
                     storeOk))

\* the catch and the finally of the loop body
FileFailed(b, error, transforms, storeOk) ==
    LET filePath == b.files[b.idx]
        counted == [b EXCEPT !.errors = pushError(@, filePath, error),
                             !.pending = @ - 1,
                             !.log = Append(@, [filePath |-> filePath, ok |-> FALSE,
                                                error |-> error, reads |-> b.file.reads,
                                                transforms |-> transforms,
                                                uploadLoc |-> NoLoc, upload |-> "none",
                                                existed |-> FALSE,
                                                image |-> OriginalBytes(<< >>)])]
    IN  Advance(Save(counted, Progress(counted.done, counted.pending, counted.errors),
                     storeOk))

\* processImage returned: the upload is in flight, the counters move, finally
FileProcessed(b, converted, storeOk) ==
    LET filePath == b.files[b.idx]
        uploadLoc == uploadFileKey(config,
                         ConvertedKey(filePath, b.file.originalName, b.file.parsedName))
        counted == [b EXCEPT !.done = @ + 1,
                             !.pending = @ - 1,
                             !.log = Append(@, [filePath |-> filePath, ok |-> TRUE,
                                                error |-> NoError, reads |-> b.file.reads,
                                                transforms |-> 1,
                                                uploadLoc |-> uploadLoc, upload |-> "inflight",
                                                existed |-> uploadLoc \in DOMAIN store,
                                                image |-> converted])]
    IN  Advance(Save(counted, Progress(counted.done, counted.pending, counted.errors),
                     storeOk))

\* batchTransformAndUploadFromList up to its first suspension
batchTransformAndUploadFromList(entry, storageName, filePaths, transformations, storeOk) ==
    LET b == [IdleBatch EXCEPT !.entry = entry, !.variant = "list", !.token = "t1",
                               !.storageName = storageName, !.files = filePaths,
                               !.transformations = transformations,
                               !.faults = batch.faults]
        failed == Preconditions(storageName, transformations)
    IN  IF ~failed.ok THEN Rejected(b, failed)
        ELSE IF Len(filePaths) = 0
        THEN Rejected(b, ErrorObject(400, "No files provided for processing."))
        ELSE processFilesStart(b, filePaths, storeOk)

\* batchTransformAndUpload up to its first suspension, the call of listFiles
batchTransformAndUpload(entry, storageName, directoryPath, transformations) ==
    LET b == [IdleBatch EXCEPT !.entry = entry, !.variant = "directory", !.token = "t1",
                               !.storageName = storageName,
                               !.directoryPath = directoryPath,
                               !.transformations = transformations,
                               !.faults = batch.faults]
        failed == Preconditions(storageName, transformations)
    IN  IF ~failed.ok THEN Rejected(b, failed) ELSE [b EXCEPT !.pc = "listing"]

\* the 400 answer of a route to a body without its required fields
Refused(variant) ==
    [IdleBatch EXCEPT !.pc = "refused", !.entry = "route", !.variant = variant,
                      !.faults = batch.faults,
                      !.response = [status |-> 400, success |-> FALSE, token |-> "",
                                    filesBefore |-> 0]]

\* POST /process/list
PostProcessList(storageName, filePaths, transformations) ==
    /\ batch.pc = "idle"
    /\ \E storeOk \in BOOLEAN :
         /\ storeOk \/ batch.faults < MaxFaults
         /\ LET b == IF Len(filePaths) = 0 THEN Refused("list")
                     ELSE AfterStep(batchTransformAndUploadFromList(
                              "route", storageName, filePaths, transformations, storeOk))
            IN  batch' = b /\ redis' = RedisAfter(b)
    /\ UNCHANGED << config, store, nWrites, call, fn, poll >>

\* batchTransformAndUploadFromList called without the route in front of it
BatchFromListCall(storageName, filePaths, transformations) ==
    /\ batch.pc = "idle"
    /\ \E storeOk \in BOOLEAN :
         /\ storeOk \/ batch.faults < MaxFaults
         /\ LET b == batchTransformAndUploadFromList(
                         "controller", storageName, filePaths, transformations, storeOk)
            IN  batch' = b /\ redis' = RedisAfter(b)
    /\ UNCHANGED << config, store, nWrites, call, fn, poll >>

\* POST /process/directory
PostProcessDirectory(storageName, path, transformations) ==
    /\ batch.pc = "idle"
    /\ batch' = IF Len(path) = 0 THEN Refused("directory")
                ELSE AfterStep(batchTransformAndUpload(
                         "route", storageName, path, transformations))
    /\ UNCHANGED << config, store, nWrites, call, fn, redis, poll >>

\* batchTransformAndUpload awaiting listFiles: one page request of the
\* listing settles. A failure of any page is thrown as a 500 error; a page
\* with a continuation token is followed by the next request; the last
\* page ends the listing and starts _processFiles
ListFilesReturn ==
    /\ batch.pc = "listing"
    /\ \E sdkFailure, storeOk \in BOOLEAN, count \in 1..PageSize :
         /\ sdkFailure => (batch.storageName = "s3" /\ storeOk /\ count = 1)
         /\ (sdkFailure \/ ~storeOk) => batch.faults < MaxFaults
         /\ LET r == listFiles(batch.storageName,
                               ListObjectsV2(batch.directoryPath, batch.continuationToken,
                                             count, sdkFailure))
                paged == [batch EXCEPT !.pages = Append(@, r.Contents),
                                       !.listed = @ \o r.Contents,
                                       !.continuationToken = r.NextContinuationToken]
                b == IF ~r.err.ok
                     THEN Rejected([batch EXCEPT !.listing = "failed",
                                                 !.faults = IF sdkFailure THEN @ + 1 ELSE @],
                                   ErrorObject(500, "Failed to list files from storage"))
                     ELSE IF WhileContinuation(r.NextContinuationToken)
                     THEN paged
                     ELSE processFilesStart([paged EXCEPT !.listing = "listed"],
                                            paged.listed, storeOk)
            IN  /\ (b.pc \in { "listing", "rejected" }) => storeOk
                /\ batch' = AfterStep(b)
                /\ redis' = RedisAfter(b)
    /\ UNCHANGED << config, store, nWrites, call, fn, poll >>

\* the derived name is read in place of the original
processImageReadKeyDerived(originalPath, parsedName) == parsedName

\* processImage: the key it hands to readFile(key, false)
processImageReadKey(originalPath, parsedName) == originalPath

\* the loop body of _processFiles up to its first suspension: the extension
\* checks, the derived name and the start of processImage's read
BatchFileStart ==
    /\ batch.pc = "loop"
    /\ \E storeOk \in BOOLEAN :
         /\ storeOk \/ batch.faults < MaxFaults
         /\ LET filePath == batch.files[batch.idx]
                ext == pop(split(filePath, "."))
                name == split(pop(split(filePath, "/")), ".")[1]
                originalName == name \o << "." >> \o ext
                originalExtension == validateImageExtension(VStr(ext))
                newExtension == validateImageExtension(Get(batch.transformations, "format"))
                extension == IF newExtension.val # Null THEN newExtension.val
                             ELSE originalExtension.val
                parsedName == createNameFromParams(name, extension, batch.transformations)
                b == IF ~includes(filePath, ".")
                     THEN FileFailed(batch, ErrorObject(400, "File extension is missing"),
                                     0, storeOk)
                     ELSE IF ~originalExtension.err.ok
                     THEN FileFailed(batch, originalExtension.err, 0, storeOk)
                     ELSE IF ~newExtension.err.ok
                     THEN FileFailed(batch, newExtension.err, 0, storeOk)
                     ELSE [batch EXCEPT
                              !.pc = "read",
                              !.file = [NoFile EXCEPT
                                  !.originalName = originalName,
                                  !.parsedName = parsedName,
                                  !.extension = extension,
                                  !.reads = << readFileKey(config,
                                                   processImageReadKey(filePath, parsedName),
                                                   FALSE) >>]]
            IN  /\ (b.pc = "read") => storeOk
                /\ batch' = AfterStep(b)
                /\ redis' = RedisAfter(b)
    /\ UNCHANGED << config, store, nWrites, call, fn, poll >>

\* processImage: the read of the original settles
BatchReadReturn ==
    /\ batch.pc = "read"
    /\ \E sdkFailure, storeOk \in BOOLEAN :
         /\ sdkFailure => storeOk
         /\ (sdkFailure \/ ~storeOk) => batch.faults < MaxFaults
         /\ LET r == readFile(batch.file.reads[1], sdkFailure)
                b == IF r.err.ok
                     THEN [batch EXCEPT !.pc = "convert", !.file.image = r.val]
                     ELSE FileFailed([batch EXCEPT !.faults = IF sdkFailure THEN @ + 1 ELSE @],
                                     r.err, 0, storeOk)
            IN  /\ r.err.ok => storeOk
                /\ batch' = AfterStep(b)
                /\ redis' = RedisAfter(b)
    /\ UNCHANGED << config, store, nWrites, call, fn, poll >>

\* processImage: convertImage settles; on success the upload is started
\* through Silent, processImage returns and the file is counted
BatchConvertReturn ==
    /\ batch.pc = "convert"
    /\ \E outcome \in { "converted", "operation", "sharp" }, storeOk \in BOOLEAN :
         /\ outcome # "converted" => storeOk
         /\ (outcome # "converted" \/ ~storeOk) => batch.faults < MaxFaults
         /\ outcome = "operation" => Len(LoopOps(batch.transformations)) > 0
         /\ LET converted == convertImage(batch.file.image, batch.transformations,
                                          batch.file.extension)
                faulted == [batch EXCEPT !.faults = @ + 1]
                b == CASE outcome = "converted" -> FileProcessed(batch, converted, storeOk)
                       [] outcome = "operation" ->
                              FileFailed(faulted, ErrorObject(400, "Failed to apply operation"),
                                         1, storeOk)
                       [] OTHER ->
                              FileFailed(faulted, ErrorObject(502, "Sharp processing failed"),
                                         1, storeOk)
            IN  batch' = AfterStep(b) /\ redis' = RedisAfter(b)
    /\ UNCHANGED << config, store, nWrites, call, fn, poll >>

\* the PutObject of a processed file settles; Silent awaits it
BatchUploadReturn(i) ==
    /\ i \in 1..Len(batch.log)
    /\ batch.log[i].upload = "inflight"
    /\ \/ /\ store' = [k \in DOMAIN store \cup { batch.log[i].uploadLoc } |->
                          IF k = batch.log[i].uploadLoc THEN batch.log[i].image ELSE store[k]]
          /\ nWrites' = nWrites + 1
          /\ batch' = [batch EXCEPT !.log[i].upload = "ok"]
       \/ /\ batch.faults < MaxFaults
          /\ batch' = [batch EXCEPT !.log[i].upload = "failed", !.faults = @ + 1]
          /\ UNCHANGED << store, nWrites >>
    /\ UNCHANGED << config, call, fn, redis, poll >>

\* GET /progress/:token
GetProgressRoute(token) ==
    /\ \E storeAnswers \in BOOLEAN :
         LET progress == getProgress(token, storeAnswers)
         IN  poll' = IF ProgressFound(progress)
                     THEN [token |-> token, status |-> 200, success |-> TRUE,
                           progress |-> progress.val, answered |-> storeAnswers,
                           persisted |-> IF token = batch.token THEN batch.persisted ELSE 0]
                     ELSE [token |-> token, status |-> 404, success |-> FALSE,
                           progress |-> progress.val, answered |-> storeAnswers,
                           persisted |-> IF token = batch.token THEN batch.persisted ELSE 0]
    /\ UNCHANGED << config, store, nWrites, call, fn, batch, redis >>

InitBatch ==
    /\ config \in BatchConfigs
    /\ store = [k \in { config.prefix \o p : p \in StoredPaths } |-> OriginalBytes(k)]
    /\ nWrites = 0
    /\ call = [c \in Calls |-> IdleCall]
    /\ fn = IdleFn
    /\ batch = IdleBatch
    /\ redis = NoRecords
    /\ poll = NoPoll

NextBatch ==
    \/ \E request \in ListRequests : PostProcessList(request[1], request[2], request[3])
    \/ \E request \in ListCalls : BatchFromListCall(request[1], request[2], request[3])
    \/ \E request \in DirectoryRequests :
           PostProcessDirectory(request[1], request[2], request[3])
    \/ ListFilesReturn
    \/ BatchFileStart
    \/ BatchReadReturn
    \/ BatchConvertReturn
    \/ \E i \in 1..MaxFiles + 3 : BatchUploadReturn(i)
    \/ \E token \in Tokens : GetProgressRoute(token)

SpecBatch == InitBatch /\ [][NextBatch]_vars

\* a run that has passed its preconditions and has not ended: it awaits a
\* listing page, the read of an original or sharp, or is at a file
Running == batch.pc \in { "listing", "loop", "read", "convert" }

\* where the run is: only ListFilesReturn, BatchFileStart, BatchReadReturn
\* and BatchConvertReturn change it, and each of them does
RunPosition == << batch.pc, batch.idx, Len(batch.pages) >>

\* every call a run has started settles, with a result or with a failure,
\* and the loop body runs when the loop is at a file. For the writes in
\* flight this is weak fairness of BatchUploadReturn; for the steps of the
\* run weak fairness is written out, with Running as their enabling
\* condition and a change of RunPosition as their occurrence
BatchFairness ==
    /\ \A i \in 1..MaxFiles + 3 : WF_vars(BatchUploadReturn(i))
    /\ ([]<>(~Running) \/ []<><<RunPosition' # RunPosition>>_vars)

\* the batch runner on an event loop that runs every continuation that is
\* ready
SpecBatchFair == InitBatch /\ [][NextBatch]_vars /\ BatchFairness

(***************************************************************************)
(* Properties                                                              *)
(***************************************************************************)
Started(c) == call[c].pc # "idle"

SameRequest(c1, c2) ==
    /\ call[c1].imagePath = call[c2].imagePath
    /\ call[c1].storageName = call[c2].storageName
    /\ call[c1].queryParams = call[c2].queryParams

NoStorageCall(c) ==
    /\ call[c].cacheLoc = NoLoc
    /\ call[c].origLoc = NoLoc
    /\ call[c].uploadLoc = NoLoc
    /\ call[c].upload = "none"

\* C1: round-trip idempotence. When a first call took the miss branch and
\* its store write completed, a second identical call that starts after the
\* write, with no other write to storage before its cache-key read, and whose
\* cache-key read is answered by the backend, is a cache hit: it returns the
\* bytes of the first call, reads no original and invokes no transform.
C1_RoundTripIdempotence ==
    \A c1, c2 \in Calls :
        ( /\ c1 # c2
          /\ SameRequest(c1, c2)
          /\ call[c1].upload = "ok"
          /\ call[c2].startSeq = call[c1].uploadSeq
          /\ call[c2].readSeq = call[c1].uploadSeq
          /\ call[c2].cacheOutcome \in { "hit", "notfound" } )
        => /\ call[c2].cacheOutcome = "hit"
           /\ call[c2].pc = "done"
           /\ call[c2].err.ok
           /\ call[c2].resImage = call[c1].resImage
           /\ call[c2].origReads = 0
           /\ call[c2].transforms = 0

\* C2: in every call on the miss branch the location the transformed bytes
\* are written to is the location the cache check of that call read.
C2_WriteGoesToCacheKey ==
    \A c \in Calls :
        call[c].uploadLoc # NoLoc => call[c].uploadLoc = call[c].cacheLoc

\* all orders of the entries of a raw map
InsertionOrders(q) ==
    { [i \in 1..Len(q) |-> q[f[i]]] :
        f \in { g \in [1..Len(q) -> 1..Len(q)] :
                  \A i, j \in 1..Len(q) : i # j => g[i] # g[j] } }

\* C3: determinism of the name deriver. createNameFromParams returns the
\* same string for every insertion order of the same key-value pairs.
C3_NameIndependentOfOrder ==
    fn.pc = "named" =>
        \A q \in InsertionOrders(fn.queryParams) :
            createNameFromParams(fn.imageName, fn.imageExtension, q) = fn.name

\* at least two tokens whose insertion order is not the sorted order
C3_Witness ==
    /\ fn.pc = "named"
    /\ Len(NameTokens(fn.queryParams)) >= 2
    /\ StrLess(NameTokens(fn.queryParams)[2], NameTokens(fn.queryParams)[1])

\* the short codes of section 4.2 of the specification
RefKeys == { "width", "height", "quality", "blur", "rotate", "greyscale", "flip", "flop", "tint" }

RefCode(key) ==
    CASE key = "width"     -> << "w" >>
      [] key = "height"    -> << "h" >>
      [] key = "quality"   -> << "q" >>
      [] key = "blur"      -> << "b" >>
      [] key = "rotate"    -> << "r" >>
      [] key = "greyscale" -> << "g" >>
      [] key = "flip"      -> << "f", "l", "i", "p" >>
      [] key = "flop"      -> << "f", "l", "o", "p" >>
      [] key = "tint"      -> << "t" >>

\* the reference naming function: the set of tokens, listed in ascending
\* order, each preceded by '-', between the base name and the extension
RefTokens(q) ==
    { RefCode(q[i][1]) \o << "-" >> \o TemplateString(q[i][2]) :
        i \in { j \in 1..Len(q) : q[j][1] # "format" } }

RefAscending(T) ==
    CHOOSE t \in [1..Cardinality(T) -> T] :
        \A i, j \in 1..Cardinality(T) : i < j => StrLess(t[i], t[j])

RECURSIVE RefDashed(_)
RefDashed(t) ==
    IF Len(t) = 0 THEN << >> ELSE RefDashed(SubSeq(t, 1, Len(t) - 1)) \o << "-" >> \o t[Len(t)]

RefName(baseName, extension, q) ==
    baseName \o RefDashed(RefAscending(RefTokens(q))) \o << "." >> \o extension

RefDomain(q) == \A i \in 1..Len(q) : q[i][1] \in RefKeys \cup { "format" }

\* C4: createNameFromParams equals the reference naming function on every
\* map of TransformSpec keys, and ("p1", "webp", {width: 600, height: 800})
\* gives "p1-h-800-w-600.webp".
C4_NameMatchesReference ==
    /\ (fn.pc = "named" /\ RefDomain(fn.queryParams))
           => fn.name = RefName(fn.imageName, fn.imageExtension, fn.queryParams)
    /\ fn.pc = "named"
           => createNameFromParams(<< "p", "1" >>, << "w", "e", "b", "p" >>,
                                   << << "width", VNum(600) >>, << "height", VNum(800) >> >>)
                  = << "p", "1", "-", "h", "-", "8", "0", "0", "-", "w", "-", "6", "0", "0", ".", "w", "e", "b", "p" >>

\* a named map with a format entry and a token
C4_Witness ==
    /\ fn.pc = "named"
    /\ RefDomain(fn.queryParams)
    /\ \E i \in 1..Len(fn.queryParams) : fn.queryParams[i][1] = "format"
    /\ RefTokens(fn.queryParams) # {}

\* C5: two raw maps that validate to the same TransformSpec give, for the
\* same path, the same CacheKey.
C5_SameSpecSameCacheKey ==
    \A c1, c2 \in Calls :
        ( /\ call[c1].cacheLoc # NoLoc
          /\ call[c2].cacheLoc # NoLoc
          /\ call[c1].imagePath = call[c2].imagePath
          /\ call[c1].storageName = call[c2].storageName
          /\ call[c1].validatedParams = call[c2].validatedParams )
        => /\ call[c1].parsedName = call[c2].parsedName
           /\ call[c1].cacheLoc = call[c2].cacheLoc

\* C6: the original is fetched only after the cache-key read reported
\* NotFound, at the literal request path under the prefix of originals; a
\* missing original ends the call with 404 after that single read, with no
\* transform and no write.
C6_MissingOriginalIsTerminal ==
    \A c \in Calls :
        /\ call[c].origLoc # NoLoc
               => /\ call[c].cacheOutcome = "notfound"
                  /\ call[c].origLoc = config.prefix \o call[c].imagePath
        /\ call[c].origOutcome = "notfound"
               => /\ call[c].pc = "done"
                  /\ call[c].err = ErrorObject(404, "Image not exists in storage")
                  /\ call[c].origReads = 1
                  /\ call[c].transforms = 0
                  /\ call[c].upload = "none"
                  /\ call[c].uploadLoc = NoLoc

\* a call that missed the cache and found no original, with a convertPath set
C6_Witness ==
    \E c \in Calls :
        /\ call[c].origOutcome = "notfound"
        /\ call[c].pc = "done"
        /\ Len(config.convertPath) > 0

EmptySpecMaps ==
    { q \in { processedQueryParams(request[3]) : request \in Requests } :
        LET validated == validateQueryParams(q)
        IN  validated.err.ok /\ validated.val = << >> }

\* C8: a raw map that validates to an empty TransformSpec is rejected with
\* a 400 ErrorObject (the "Query params required" message whenever the path
\* has an extension) and no storage read or write is made.
C8_EmptySpecRejected ==
    \A c \in Calls :
        (Started(c) /\ call[c].queryParams \in EmptySpecMaps)
        => /\ call[c].pc = "done"
           /\ call[c].err.eo
           /\ call[c].err.status = 400
           /\ includes(call[c].imagePath, ".")
                  => call[c].err.msg = "Query params required for conversion"
           /\ NoStorageCall(c)

\* an empty map on a path with an extension, rejected
C8_Witness ==
    \E c \in Calls :
        /\ call[c].pc = "done"
        /\ call[c].queryParams = << >>
        /\ call[c].imagePath = PathSimple
        /\ call[c].storageName = "s3"
        /\ call[c].err.status = 400

\* C9: a path without '.' is rejected with the 400 "File extension is
\* missing" error before any storage call, for every backend and every map.
C9_MissingExtensionRejected ==
    \A c \in Calls :
        (Started(c) /\ ~includes(call[c].imagePath, "."))
        => /\ call[c].pc = "done"
           /\ call[c].err = ErrorObject(400, "File extension is missing")
           /\ NoStorageCall(c)

\* a path without extension, with a valid map, rejected
C9_Witness ==
    \E c \in Calls :
        /\ call[c].pc = "done"
        /\ call[c].imagePath = PathNoExt
        /\ call[c].queryParams = RawWidth
        /\ call[c].err.status = 400

\* the text of a decimal integer: an optional sign and at least one digit
IsNumeralText(s) ==
    /\ Len(s) > 0
    /\ IF s[1] \in { "+", "-" } THEN AllDigits(Tail(s)) ELSE AllDigits(s)

ClaimNumeric(v) == v.t = "num" \/ (v.t = "str" /\ IsNumeralText(v.s))

ClaimValue(v) ==
    IF v.t = "num" THEN v.n
    ELSE IF v.s[1] = "-" THEN 0 - DigitsValue(Tail(v.s), 0)
    ELSE IF v.s[1] = "+" THEN DigitsValue(Tail(v.s), 0)
    ELSE DigitsValue(v.s, 0)

\* an entry the claim says must be rejected
ClaimRejects(key, v) ==
    \/ key \notin RefKeys \cup { "format" }
    \/ /\ key \in { "width", "height", "quality", "blur", "rotate" }
       /\ \/ ~ClaimNumeric(v)
          \/ ClaimNumeric(v) /\ key = "quality" /\ (ClaimValue(v) < 0 \/ ClaimValue(v) > 100)
          \/ ClaimNumeric(v) /\ key # "quality" /\ ClaimValue(v) < 0
    \/ /\ key \in { "greyscale", "flip", "flop" }
       /\ ~(v.t = "str" /\ toLowerCase(v.s) \in
                { << "t", "r", "u", "e" >>, << "f", "a", "l", "s", "e" >>, << "1" >>, << "0" >> })
    \/ /\ key = "format"
       /\ v.t = "str" /\ Len(v.s) > 0 /\ toLowerCase(v.s) \notin formatMap

\* C10: validateQueryParams fails with a 400 ErrorObject for every raw map
\* holding an entry the claim lists (unrecognised key, non-numeric value of
\* a numeric key, quality outside [0,100], negative width/height/blur/rotate,
\* boolean outside {true,false,1,0}, unsupported format); quality=0,
\* quality=100 and width=0 are accepted; nothing else changes.
C10_ValidationBoundary ==
    fn.pc = "validated" =>
        /\ (\E i \in 1..Len(fn.queryParams) :
                ClaimRejects(fn.queryParams[i][1], fn.queryParams[i][2]))
               => (fn.validated.err.eo /\ fn.validated.err.status = 400)
        /\ fn.queryParams \in { << << "quality", VStr(<< "0" >>) >> >>,
                                << << "quality", VStr(<< "1", "0", "0" >>) >> >>,
                                << << "width", VStr(<< "0" >>) >> >> }
               => fn.validated.err.ok
        /\ nWrites = 0
        /\ call = [c \in Calls |-> IdleCall]

\* a colour of six hexadecimal digits, with or without the leading '#'
IsHexDigit(c) ==
    \/ IsDigit(c)
    \/ CharCode(c) >= 65 /\ CharCode(c) <= 70
    \/ CharCode(c) >= 97 /\ CharCode(c) <= 102

WellFormedTint(v) ==
    /\ v.t = "str"
    /\ LET cleanHex == IF Len(v.s) > 0 /\ v.s[1] = "#" THEN Tail(v.s) ELSE v.s
       IN  Len(cleanHex) = 6 /\ \A i \in 1..6 : IsHexDigit(cleanHex[i])

\* C11: validateQueryParams fails with a 400 ErrorObject for every raw map
\* holding a tint value that is not a well-formed 6-hex-digit colour, such
\* as tint = "zzzzzz".
C11_IllFormedTintRejected ==
    ( /\ fn.pc = "validated"
      /\ \E i \in 1..Len(fn.queryParams) :
            /\ fn.queryParams[i][1] = "tint"
            /\ ~WellFormedTint(fn.queryParams[i][2]) )
    => (fn.validated.err.eo /\ fn.validated.err.status = 400)

\* C18: ordering of the Transform Engine. On every validated TransformSpec
\* the pipeline of convertImage has resize only in first place, and there
\* whenever width or height is set; has the encoding step only in last
\* place, and there whenever format or quality is set; and applies the
\* remaining operations in one fixed order, so that the same fields given
\* in another order produce the same pipeline.
C18_PipelineOrder ==
    fn.pc = "converted" =>
        LET ops == fn.validated.val
            p == fn.pipeline
            sized == Truthy(Get(ops, "width")) \/ Truthy(Get(ops, "height"))
            encoded == Truthy(Get(ops, "format")) \/ Truthy(Get(ops, "quality"))
        IN  /\ sized => (Len(p) > 0 /\ p[1].name = "resize")
            /\ \A i \in 1..Len(p) : p[i].name = "resize" => (sized /\ i = 1)
            /\ encoded => (Len(p) > 0 /\ p[Len(p)].name = "toFormat")
            /\ \A i \in 1..Len(p) : p[i].name = "toFormat" => (encoded /\ i = Len(p))
            /\ \A q \in InsertionOrders(ops) :
                   convertImagePipeline(q, fn.imageExtension) = p

\* the Content-Type of an output extension
OutputContentType(extension) ==
    << "i", "m", "a", "g", "e", "/" >>
        \o (IF extension = << "j", "p", "g" >> THEN << "j", "p", "e", "g" >> ELSE extension)

\* C19: every request of the image route that getImage answered gets
\* status 200, the image bytes as body and a Content-Type derived from the
\* output extension (the requested format when one is given, otherwise the
\* extension of the original).
C19_ImageResponse ==
    \A c \in Calls :
        (call[c].pc = "done" /\ call[c].err.ok)
        => /\ call[c].response.status = 200
           /\ call[c].response.body = "bytes"
           /\ call[c].response.image = call[c].resImage
           /\ call[c].response.contentType = OutputContentType(call[c].resExtension)

\* the run is past its preconditions and in _processFiles
InProcessFiles == batch.pc \in { "loop", "read", "convert", "finished" }

\* the failed files among the first j of the log, as {filePath, error}
RECURSIVE FailuresUpTo(_)
FailuresUpTo(j) ==
    IF j = 0 THEN << >>
    ELSE IF batch.log[j].ok THEN FailuresUpTo(j - 1)
    ELSE Append(FailuresUpTo(j - 1),
                [filePath |-> batch.log[j].filePath, error |-> batch.log[j].error])

SuccessesUpTo(j) == Cardinality({ i \in 1..j : batch.log[i].ok })

\* C12: batch partial failure. The failure of a file (missing or
\* unsupported extension, unreadable original, transform error) is recorded
\* in errors with the path and the error of that file, the files after it
\* are still processed, and a run of n files of which k failed ends with
\* done = n - k, pending = 0 and errors holding the k failing paths in list
\* order.
C12_PartialFailure ==
    InProcessFiles =>
        /\ Len(batch.log) <= Len(batch.files)
        /\ \A i \in 1..Len(batch.log) : batch.log[i].filePath = batch.files[i]
        /\ batch.errors = FailuresUpTo(Len(batch.log))
        /\ batch.done = SuccessesUpTo(Len(batch.log))
        /\ batch.pending = Len(batch.files) - Len(batch.log)
        /\ batch.pc = "finished"
               => /\ Len(batch.log) = Len(batch.files)
                  /\ batch.pending = 0
                  /\ batch.done = Len(batch.files) - Len(batch.errors)

\* five files, the third without original: done = 4, pending = 0, errors = [file 3]
C12_Witness ==
    /\ batch.pc = "finished"
    /\ batch.files = FiveFiles
    /\ batch.done = 4
    /\ batch.pending = 0
    /\ Len(batch.errors) = 1
    /\ batch.errors[1].filePath = PathMissing
    /\ batch.errors[1].error.status = 404

\* C13: batch progress persistence. A run past its preconditions has
\* issued, under its token, first the snapshot {done: 0, pending: file
\* count, errors: []} and then one full snapshot after every file, failed
\* or not: file count plus one snapshots at the end; the store holds one of
\* them, and the last one when no write to the store failed.
C13_SnapshotPerFile ==
    InProcessFiles =>
        /\ Len(batch.saves) = Len(batch.log) + 1
        /\ \A i \in 1..Len(batch.saves) :
               /\ batch.saves[i].token = batch.token
               /\ batch.saves[i].progress =
                      Progress(SuccessesUpTo(i - 1), Len(batch.files) - (i - 1),
                               FailuresUpTo(i - 1))
        /\ batch.pc = "finished" => Len(batch.saves) = Len(batch.files) + 1
        /\ redis[batch.token].present
               => /\ batch.persisted \in 1..Len(batch.saves)
                  /\ redis[batch.token].text = stringify(batch.saves[batch.persisted].progress)
        /\ batch.faults = 0
               => /\ redis[batch.token].present
                  /\ batch.persisted = Len(batch.saves)

\* a finished run of at least three files with a failure and a success
C13_Witness ==
    /\ batch.pc = "finished"
    /\ Len(batch.files) >= 3
    /\ batch.done >= 1
    /\ Len(batch.errors) >= 1
    /\ Len(batch.saves) = Len(batch.files) + 1
    /\ redis[batch.token].present

\* nothing was read, transformed, written or recorded for the run
NoBatchWork ==
    /\ batch.saves = << >>
    /\ batch.log = << >>
    /\ batch.file = NoFile
    /\ \A t \in Tokens : ~redis[t].present
    /\ nWrites = 0
    /\ DOMAIN store = { config.prefix \o p : p \in StoredPaths }

\* C14: batch preconditions fail fast. A run whose backend name is not
\* registered, whose validated TransformSpec is empty or, in the list
\* variant, whose file list is empty, fails with a 400 ErrorObject; no
\* progress record exists under its token and no file was read,
\* transformed or written.
C14_PreconditionsFailFast ==
    ( /\ batch.pc \notin { "idle", "refused" }
      /\ \/ batch.storageName \notin { "s3", "ftp" }
         \/ /\ validateQueryParams(batch.transformations).err.ok
            /\ validateQueryParams(batch.transformations).val = << >>
         \/ batch.variant = "list" /\ batch.files = << >> )
    => /\ batch.pc = "rejected"
       /\ batch.err.eo
       /\ batch.err.status = 400
       /\ NoBatchWork

\* the list variant called with an empty list and otherwise valid arguments
C14_Witness ==
    /\ batch.pc = "rejected"
    /\ batch.variant = "list"
    /\ batch.files = << >>
    /\ batch.storageName = "s3"
    /\ batch.transformations = RawWidth
    /\ batch.err.status = 400

\* C15: in the directory variant a failure of the listing, including the
\* listing a backend of type FTP does not support, fails the run with a 500
\* error; no file is processed and no progress record is created.
C15_ListFailureIsFatal ==
    /\ (batch.variant = "directory" /\ batch.listing = "failed")
           => /\ batch.pc = "rejected"
              /\ batch.err.eo
              /\ batch.err.status = 500
              /\ NoBatchWork
    /\ ( /\ batch.variant = "directory"
         /\ batch.storageName = "ftp"
         /\ batch.pc \notin { "idle", "refused", "listing" } )
           => /\ batch.pc = "rejected"
              /\ batch.err.eo
              /\ batch.err.status = 400 \/ batch.listing = "failed"
              /\ NoBatchWork

\* a directory run on the FTP backend whose listing failed
C15_Witness ==
    /\ batch.variant = "directory"
    /\ batch.storageName = "ftp"
    /\ batch.listing = "failed"
    /\ batch.pc = "rejected"
    /\ batch.err.status = 500

\* C16: batch launch is non-blocking. Both POST handlers, once the body
\* has its required fields, answer {success: true, message, token} with
\* the token of the run before any file of the run is processed, whatever
\* the run does afterwards.
C16_LaunchDoesNotBlock ==
    (batch.entry = "route" /\ batch.pc \notin { "idle", "refused" })
    => /\ batch.response.status = 200
       /\ batch.response.success
       /\ batch.response.token = batch.token
       /\ batch.response.token # ""
       /\ batch.response.filesBefore = 0

\* a directory run that processed a file after the handler had answered
C16_Witness ==
    /\ batch.entry = "route"
    /\ batch.variant = "directory"
    /\ batch.response.status = 200
    /\ batch.response.filesBefore = 0
    /\ batch.pc = "finished"
    /\ batch.done >= 1

\* the derived name of a file: base name, sorted tokens, output extension
DerivedName(filePath, transformations) ==
    LET ext == pop(split(filePath, "."))
        name == split(pop(split(filePath, "/")), ".")[1]
        newExtension == validateImageExtension(Get(transformations, "format")).val
        extension == IF newExtension # Null THEN newExtension ELSE toLowerCase(ext)
    IN  createNameFromParams(name, extension, transformations)

\* the location of derived objects
DerivedRoot == IF Len(config.convertPath) > 0 THEN config.convertPath ELSE config.prefix

\* the key the run stores the derived object of a file under
DerivedKey(filePath, transformations) ==
    LET ext == pop(split(filePath, "."))
        name == split(pop(split(filePath, "/")), ".")[1]
    IN  DerivedRoot \o replace(filePath, name \o << "." >> \o ext,
                               DerivedName(filePath, transformations))

C21_StructuredErrorBody ==
    \A c \in Calls :
        (call[c].pc = "done" /\ ~call[c].err.ok)
        => /\ call[c].response.status =
                  (IF call[c].err.eo THEN call[c].err.status ELSE 500)
           /\ call[c].response.contentType = ApplicationJson
           /\ ~call[c].response.json.success
           /\ call[c].response.json.key = "error"
           /\ call[c].response.json.text = call[c].err.msg

\* C22: two calls with the same path, backend and params that both missed
\* the cache both transformed the original and both returned the
\* transformed bytes, whatever the other call was doing; once both writes
\* have been applied the object at the cache key is the output of one of
\* the two calls.
C22_ConcurrentMissesLastWriteWins ==
    \A c1, c2 \in Calls :
        ( /\ c1 # c2
          /\ SameRequest(c1, c2)
          /\ call[c1].cacheOutcome = "notfound"
          /\ call[c2].cacheOutcome = "notfound"
          /\ call[c1].upload # "none"
          /\ call[c2].upload # "none" )
        => /\ \A c \in { c1, c2 } :
                  /\ call[c].pc = "done"
                  /\ call[c].err.ok
                  /\ call[c].transforms = 1
                  /\ call[c].resImage =
                         convertImage(OriginalBytes(call[c].origLoc),
                                      call[c].validatedParams, call[c].extension)
           /\ (call[c1].upload = "ok" /\ call[c2].upload = "ok")
                  => /\ call[c1].cacheLoc \in DOMAIN store
                     /\ store[call[c1].cacheLoc] \in { call[c1].resImage, call[c2].resImage }

\* C23: the steps of one getImage call are sequential. The original is
\* read only after the cache-key read has answered NotFound, the transform
\* runs only after the read of the original has returned bytes, a miss is
\* answered only after the transform has finished, with its output; the
\* write is started after the transform, and the answer is there whether
\* the write is in flight, applied or failed.
C23_StepsAreSequential ==
    \A c \in Calls :
        /\ call[c].pc = "cacheRead"
               => /\ call[c].cacheOutcome = "none"
                  /\ call[c].origOutcome = "none"
                  /\ call[c].origReads = 0
        /\ (call[c].origReads > 0 \/ call[c].pc = "origRead")
               => call[c].cacheOutcome = "notfound"
        /\ call[c].pc = "origRead"
               => (call[c].origOutcome = "none" /\ call[c].transforms = 0)
        /\ (call[c].transforms > 0 \/ call[c].pc = "convert")
               => /\ call[c].origOutcome = "found"
                  /\ call[c].origReads = 1
        /\ call[c].pc # "done" => call[c].response = NoResponse
        /\ (call[c].pc = "done" /\ call[c].err.ok /\ call[c].cacheOutcome = "notfound")
               => /\ call[c].transforms = 1
                  /\ Len(call[c].resImage.applied) = Len(call[c].image.applied) + 1
                  /\ call[c].upload \in { "inflight", "ok", "failed" }
        /\ call[c].upload # "none"
               => /\ call[c].transforms = 1
                  /\ call[c].response.status = 200

\* a miss answered while its write is still in flight
C23_Witness ==
    \E c \in Calls :
        /\ call[c].pc = "done"
        /\ call[c].cacheOutcome = "notfound"
        /\ call[c].origOutcome = "found"
        /\ call[c].transforms = 1
        /\ call[c].response.status = 200
        /\ call[c].upload = "inflight"

\* C24: getImage recomputes if and only if the cache-key read failed with
\* NotFound. After a 404 the original is read; after a hit or any other
\* failure it is not, and the other failure ends the call with that
\* failure, nothing transformed and nothing written.
C24_RecomputeIffNotFound ==
    \A c \in Calls :
        /\ call[c].cacheOutcome = "notfound"
               => (call[c].origReads = 1 /\ call[c].origLoc # NoLoc)
        /\ call[c].cacheOutcome \in { "none", "hit", "failure" }
               => /\ call[c].origReads = 0
                  /\ call[c].origLoc = NoLoc
                  /\ call[c].transforms = 0
                  /\ call[c].upload = "none"
        /\ call[c].cacheOutcome = "failure"
               => /\ call[c].pc = "done"
                  /\ ~call[c].err.ok
                  /\ call[c].err.status # 404
                  /\ call[c].response.status = call[c].err.status
                  /\ ~call[c].response.json.success

\* a cache-key read that failed with a backend failure
C24_Witness ==
    \E c \in Calls :
        /\ call[c].cacheOutcome = "failure"
        /\ call[c].pc = "done"
        /\ call[c].err.status = 502
        /\ nWrites = 0

C26_CountersWithoutLostUpdate ==
    InProcessFiles =>
        /\ \A i \in 1..Len(batch.saves) :
               LET p == batch.saves[i].progress
               IN  /\ p.done + p.pending + Len(p.errors) = Len(batch.files)
                   /\ p.pending >= 0
                   /\ p.done >= 0
        /\ \A i \in 1..(Len(batch.saves) - 1) :
               LET p == batch.saves[i].progress
                   q == batch.saves[i + 1].progress
               IN  /\ q.pending = p.pending - 1
                   /\ \/ q.done = p.done + 1 /\ Len(q.errors) = Len(p.errors)
                      \/ q.done = p.done /\ Len(q.errors) = Len(p.errors) + 1
                   /\ SubSeq(q.errors, 1, Len(p.errors)) = p.errors
        /\ redis[batch.token].present
               => LET r == parse(redis[batch.token].text)
                  IN  /\ r.done + r.pending + Len(r.errors) = Len(batch.files)
                      /\ r.pending >= 0
        /\ batch.done + batch.pending + Len(batch.errors) = Len(batch.files)
        /\ batch.done + Len(batch.errors) = Len(batch.log)

\* a finished run of three files, two of them failed, with four snapshots
C26_Witness ==
    /\ batch.pc = "finished"
    /\ Len(batch.files) = 3
    /\ batch.done = 1
    /\ Len(batch.errors) = 2
    /\ batch.pending = 0
    /\ Len(batch.saves) = 4
    /\ redis[batch.token].present

\* the keys of the pages of a listing, one page after the other
RECURSIVE Flatten(_)
Flatten(pages) == IF Len(pages) = 0 THEN << >> ELSE pages[1] \o Flatten(Tail(pages))

\* the keys of the bucket under a directory path when the listing was made
KeysUnder(directoryPath) ==
    Ascending({ k \in { config.prefix \o p : p \in StoredPaths } : startsWith(k, directoryPath) })

\* C27: S3 listFiles drains the pagination. While a listing is under way no
\* result exists and the keys collected are those of the pages so far, in
\* page order, a proper part of the keys under the path, with a
\* continuation token pending; a listing that returned gives exactly the
\* keys of all its pages, which are all keys under the path; a failed page
\* request fails the whole call and leaves no result.
C27_ListDrainsPagination ==
    (batch.variant = "directory" /\ batch.storageName = "s3")
    => /\ batch.listed = Flatten(batch.pages)
       /\ (batch.pc = "listing" /\ Len(batch.pages) > 0)
              => /\ WhileContinuation(batch.continuationToken)
                 /\ batch.continuationToken = Len(batch.listed)
                 /\ Len(batch.listed) < Len(KeysUnder(batch.directoryPath))
                 /\ batch.listed =
                        SubSeq(KeysUnder(batch.directoryPath), 1, Len(batch.listed))
       /\ batch.pc = "listing"
              => /\ batch.listing = "none"
                 /\ batch.files = << >>
                 /\ NoBatchWork
       /\ batch.listing = "listed"
              => /\ batch.files = Flatten(batch.pages)
                 /\ batch.files = KeysUnder(batch.directoryPath)
                 /\ batch.continuationToken = 0
                 /\ \A i \in 1..(Len(batch.pages) - 1) : Len(batch.pages[i]) > 0
       /\ batch.listing = "failed"
              => /\ batch.pc = "rejected"
                 /\ batch.files = << >>
                 /\ NoBatchWork

\* a listing of three keys that returned after two pages
C27_Witness ==
    /\ batch.variant = "directory"
    /\ batch.storageName = "s3"
    /\ batch.listing = "listed"
    /\ Len(batch.pages) = 2
    /\ Len(batch.files) = 3
    /\ Len(batch.pages[1]) = 2

\* what the miss branch of getImage does for a path and a raw map: the
\* location it reads the original from, the sharp calls it makes, the key
\* it writes and the bytes it writes there
GetImageMiss(imagePath, queryParams) ==
    LET ext == pop(split(imagePath, "."))
        name == split(pop(split(imagePath, "/")), ".")[1]
        originalName == name \o << "." >> \o ext
        validatedParams == validateQueryParams(queryParams).val
        newExtension == validateImageExtension(Get(queryParams, "format")).val
        extension == IF newExtension # Null THEN newExtension
                     ELSE validateImageExtension(VStr(ext)).val
        parsedName == createNameFromParams(name, extension, queryParams)
        origLoc == readFileKey(config, imagePath, FALSE)
    IN  [origLoc |-> origLoc,
         pipeline |-> convertImagePipeline(validatedParams, extension),
         uploadLoc |-> uploadFileKey(config, ConvertedKey(imagePath, originalName, parsedName)),
         bytes |-> convertImage(OriginalBytes(origLoc), validatedParams, extension)]

\* C28: the per-file step of a batch is the miss branch of getImage. Every
\* file a run processed was read at the location getImage reads the
\* original of that path from, went through the sharp calls getImage makes
\* for the same raw map, with the same arguments, and its output was
\* written to the key getImage writes, with the bytes getImage writes.
C28_BatchStepIsMissBranch ==
    \A i \in 1..Len(batch.log) :
        batch.log[i].ok
        => LET miss == GetImageMiss(batch.log[i].filePath, batch.transformations)
           IN  /\ batch.log[i].reads = << miss.origLoc >>
               /\ batch.log[i].uploadLoc = miss.uploadLoc
               /\ batch.log[i].image.src = miss.bytes.src
               /\ batch.log[i].image.applied[Len(batch.log[i].image.applied)] = miss.pipeline
               /\ batch.log[i].image = miss.bytes

\* C29: the store step never overwrites an original. For every file whose
\* write processImage started, the key written differs from the key the
\* original was read from.
C29_OriginalNotOverwritten ==
    \A i \in 1..Len(batch.log) :
        batch.log[i].upload # "none"
        => /\ Len(batch.log[i].reads) = 1
           /\ batch.log[i].uploadLoc # batch.log[i].reads[1]

\* C30: cache hits are isolated per original. The bytes a call returns from
\* the cache-hit branch are the original stored at the path of that call,
\* transformed with the map of that call: never the output made for another
\* path with the same base file name, never an untransformed original.
C30_CacheHitsIsolatedPerOriginal ==
    \A c \in Calls :
        (call[c].pc = "done" /\ call[c].cacheOutcome = "hit")
        => /\ call[c].resImage.src = readFileKey(config, call[c].imagePath, FALSE)
           /\ Len(call[c].resImage.applied) > 0
           /\ call[c].resImage = GetImageMiss(call[c].imagePath, call[c].queryParams).bytes

\* C31: the CacheKey determines the transformation. Two accepted raw maps
\* with the same key-value pairs that derive the same name for the same
\* image make the same sharp calls in the same order.
C31_CacheKeyDeterminesPipeline ==
    fn.pc = "converted" =>
        \A q \in InsertionOrders(fn.queryParams) :
            LET validated == validateQueryParams(q)
            IN  ( /\ validated.err.ok
                  /\ ~IsEmptySpec(validated.val)
                  /\ createNameFromParams(fn.imageName, fn.imageExtension, q) = fn.name )
                => convertImagePipeline(validated.val, fn.imageExtension) = fn.pipeline

\* the sharp method the loop of convertImage calls for a boolean key
BooleanMethod(key) == IF key = "greyscale" THEN "grayscale" ELSE key

\* C32: a boolean operation whose validated value is false is not applied.
\* For greyscale, flip and flop validated to false the pipeline holds no
\* call of the corresponding sharp method, and so differs from the
\* pipeline of the same map with the value true.
C32_FalseBooleanNotApplied ==
    fn.pc = "converted" =>
        \A i \in 1..Len(fn.validated.val) :
            LET key == fn.validated.val[i][1]
                asTrue == [fn.validated.val EXCEPT ![i] = << key, VBool(TRUE) >>]
            IN  ( /\ key \in { "greyscale", "flip", "flop" }
                  /\ fn.validated.val[i][2] = VBool(FALSE) )
                => /\ \A j \in 1..Len(fn.pipeline) : fn.pipeline[j].name # BooleanMethod(key)
                   /\ fn.pipeline # convertImagePipeline(asTrue, fn.imageExtension)

\* the progress store has refused every snapshot the run issued so far
StoreRefused == Len(batch.saves) > 0 /\ batch.persisted = 0

\* the progress store holds a record of the token the route handed out
TokenRetrievable ==
    batch.response.token \in Tokens /\ redis[batch.response.token].present

\* C33: every token handed out is trackable. Once a batch route has
\* answered success with a token, a progress record of that token becomes
\* retrievable, unless the progress store refused the writes; also for an
\* unregistered backend, invalid or empty transformations and a failed
\* listing.
C33_TokenIsTrackable ==
    (batch.response.success /\ batch.response.token # "")
        ~> (TokenRetrievable \/ StoreRefused)

\* C34: a file counted in done has its output stored. For every file of
\* the log that a persisted snapshot counts in done and whose write has
\* settled, the transformed bytes are at the derived key; a file whose
\* write failed is not counted in done and is recorded in errors.
C34_DoneMeansStored ==
    \A i \in 1..Len(batch.log) :
        /\ ( /\ batch.log[i].ok
             /\ batch.persisted >= i + 1
             /\ batch.log[i].upload # "inflight" )
           => /\ batch.log[i].uploadLoc \in DOMAIN store
              /\ store[batch.log[i].uploadLoc] = batch.log[i].image
        /\ batch.log[i].upload = "failed"
           => /\ ~batch.log[i].ok
              /\ \E j \in 1..Len(batch.errors) :
                     batch.errors[j].filePath = batch.log[i].filePath

\* the snapshots a run issued never go back: done does not decrease and
\* pending does not increase from one to the next
SnapshotsMonotonic ==
    \A i, j \in 1..Len(batch.saves) :
        i <= j => /\ batch.saves[i].progress.done <= batch.saves[j].progress.done
                  /\ batch.saves[i].progress.pending >= batch.saves[j].progress.pending

\* the record the store holds for the token of the run is the last
\* snapshot the store accepted
StoreHoldsLastAccepted ==
    (batch.token \in Tokens /\ redis[batch.token].present)
    => /\ batch.persisted >= 1
       /\ redis[batch.token].text = stringify(batch.saves[batch.persisted].progress)

\* what a read of the token answered is not ahead of what the store holds
\* now, so no later read shows less done or more pending
ReadsMonotonic ==
    (poll.status = 200 /\ poll.token = batch.token)
    => /\ redis[poll.token].present
       /\ parse(redis[poll.token].text).done >= poll.progress.done
       /\ parse(redis[poll.token].text).pending <= poll.progress.pending

\* the store holds the final snapshot of the run
FinalSnapshotStored ==
    /\ redis[batch.token].present
    /\ redis[batch.token].text
           = stringify(Progress(batch.done, batch.pending, batch.errors))
    /\ parse(redis[batch.token].text).pending = 0

C36_NotFoundOnlyWithoutRecord ==
    poll.status = 404
    => \/ poll.token # batch.token
       \/ poll.persisted = 0

\* C37: list/read round trip of the directory batch. Every key the listing
\* returned is read, as the original of its file, at that same key of the
\* bucket, whatever the configured prefix.
C37_ListedKeyIsReadKey ==
    batch.variant = "directory"
    => \A i \in 1..Len(batch.log) :
           /\ batch.log[i].filePath \in DOMAIN store
           /\ Len(batch.log[i].reads) = 1 => batch.log[i].reads[1] = batch.log[i].filePath

\* the run is inside the loop of _processFiles
InLoop == batch.pc \in { "loop", "read", "convert" }

\* every file was processed once, in list order, and the last snapshot
\* issued accounts for all of them
AllFilesAccounted ==
    /\ Len(batch.log) = Len(batch.files)
    /\ \A i \in 1..Len(batch.log) : batch.log[i].filePath = batch.files[i]
    /\ Len(batch.saves) = Len(batch.files) + 1
    /\ LET final == batch.saves[Len(batch.saves)].progress
       IN  /\ final.pending = 0
           /\ final.done + Len(final.errors) = Len(batch.files)
           /\ final.done = Cardinality({ i \in 1..Len(batch.log) : batch.log[i].ok })

\* C38: batch termination. A run that entered the loop over its files
\* finishes, whatever files fail, and a finished run has processed each
\* file exactly once in list order and issued a final snapshot with
\* pending = 0 and done + length(errors) = the number of files.
C38_BatchTerminates ==
    /\ InLoop ~> (batch.pc = "finished")
    /\ [](batch.pc = "finished" => AllFilesAccounted)

\* a finished run of several files of which some failed and some did not
C38_Witness ==
    /\ batch.pc = "finished"
    /\ Len(batch.files) >= 3
    /\ batch.done >= 1
    /\ Len(batch.errors) >= 1
    /\ AllFilesAccounted

====
